---------------------------- MODULE Spec2Model ----------------------------
(***************************************************************************)
(* A model of nise's report synthesis pipeline: the hourly timeline of a   *)
(* generator (generators/generator.py), the AWS row template and the S3    *)
(* fill step (generators/aws), and the month segmentation, finalization,   *)
(* packaging and delivery of report.py.                                    *)
(*                                                                         *)
(* A date-time is the number of minutes since 00:00 of January 1st of      *)
(* FirstYear; the inputs of the model have no seconds or microseconds.     *)
(***************************************************************************)
EXTENDS Integers, Sequences, FiniteSets, TLC

VARIABLES
    tl_start, tl_end, tl_result, tl_pc,      \* a call of _set_hours
    ml_start, ml_end, ml_months, ml_pc,      \* a call of _create_month_list
    g_args,     \* the arguments an S3Generator is constructed from
    g_pc,       \* "new", "failed" (__init__ raised), "ready" (constructed),
                \* "raised" (generate_data raised) or "done" (it returned)
    g_err,      \* the exception raised, "" if none
    g_self,     \* the fields of the instance
    g_data,     \* the rows _generate_hourly_data has appended so far
    g_out,      \* the rows generate_data returned
    f_in,       \* the row set _aws_finalize_report is called with
    f_data,     \* the caller's row set (after the call, once it returned)
    f_ret,      \* the row set returned
    f_pc,       \* "new" or "done"
    r_opts,     \* the options a run of a report is started with
    r_pc,       \* where the run is: "start", "month", "gen", "package",
                \* "route", "cleanup", "done" or "aborted"
    r_err,      \* the exception that left the run, "" for none
    r_gens,     \* generators
    r_months,   \* months
    r_m,        \* the place in months of the month of the loop
    r_g,        \* the place in generators of the generator of the inner loop
    r_k,        \* the call of the route step that comes next
    r_payer,    \* payer_account
    r_usage,    \* usage_accounts
    r_data,     \* data
    r_loc,      \* the other locals of the run
    r_writes,   \* the files _write_csv has written, in order
    r_tmp,      \* the temporary files that exist
    r_ntmp,     \* how many temporary files the run has created
    r_sent      \* the calls of the collaborators of the route step, in order

tl_vars == <<tl_start, tl_end, tl_result, tl_pc>>
ml_vars == <<ml_start, ml_end, ml_months, ml_pc>>
g_vars == <<g_args, g_pc, g_err, g_self, g_data, g_out>>
f_vars == <<f_in, f_data, f_ret, f_pc>>
r_vars ==
    <<r_opts, r_pc, r_err, r_gens, r_months, r_m, r_g, r_k, r_payer, r_usage,
      r_data, r_loc, r_writes, r_tmp, r_ntmp, r_sent>>
others_r == <<tl_vars, ml_vars, g_vars, f_vars>>
vars == <<tl_vars, ml_vars, g_vars, f_vars, r_vars>>

---------------------------------------------------------------------------
(* Bounds of the model.                                                    *)

\* number of calendar years the month segmenter's inputs are drawn from
MaxYears == 2
\* number of consecutive days the timeline's inputs are drawn from
MaxDays == 2
\* largest number of rows of a row set handed to the finalizer
MaxRows == 3
\* number of consecutive days the date range of a run is drawn from
RunDays == 2
\* largest number of deliveries of a run that fail
MaxFailures == 1

---------------------------------------------------------------------------
(* The calendar: datetime, calendar.monthrange, relativedelta.             *)

FirstYear == 2018 + 1

MinutesPerDay == 24 * 60

IsLeap(y) == (y % 4 = 0 /\ y % 100 # 0) \/ y % 400 = 0

\* calendar.monthrange(year, month)[1]
DaysInMonth(y, m) ==
    IF m = 2 THEN (IF IsLeap(y) THEN 29 ELSE 28)
    ELSE IF m \in {4, 6, 9, 11} THEN 30 ELSE 31

DaysInYear(y) == IF IsLeap(y) THEN 366 ELSE 365

RECURSIVE DaysBeforeYear(_)
DaysBeforeYear(y) ==
    IF y <= FirstYear THEN 0 ELSE DaysBeforeYear(y - 1) + DaysInYear(y - 1)

RECURSIVE DaysBeforeMonth(_, _)
DaysBeforeMonth(y, m) ==
    IF m <= 1 THEN 0 ELSE DaysBeforeMonth(y, m - 1) + DaysInMonth(y, m - 1)

\* datetime(year, month, day, hour, minute)
MakeDT(y, m, d, h, mi) ==
    (DaysBeforeYear(y) + DaysBeforeMonth(y, m) + (d - 1)) * MinutesPerDay
        + h * 60 + mi

RECURSIVE YearFrom(_, _)
YearFrom(y, days) ==
    IF days < DaysInYear(y) THEN y ELSE YearFrom(y + 1, days - DaysInYear(y))

RECURSIVE MonthFrom(_, _, _)
MonthFrom(y, m, days) ==
    IF days < DaysInMonth(y, m) THEN m
    ELSE MonthFrom(y, m + 1, days - DaysInMonth(y, m))

\* the fields of a datetime
YearOf(t) == YearFrom(FirstYear, t \div MinutesPerDay)
MonthOf(t) ==
    MonthFrom(YearOf(t), 1, (t \div MinutesPerDay) - DaysBeforeYear(YearOf(t)))
DayOf(t) ==
    (t \div MinutesPerDay) - DaysBeforeYear(YearOf(t))
        - DaysBeforeMonth(YearOf(t), MonthOf(t)) + 1
HourOf(t) == (t % MinutesPerDay) \div 60
MinuteOf(t) == t % 60

\* dt.replace(hour=h)
ReplaceHour(t, h) == MakeDT(YearOf(t), MonthOf(t), DayOf(t), h, MinuteOf(t))

\* dt.replace(day=d)
ReplaceDay(t, d) == MakeDT(YearOf(t), MonthOf(t), d, HourOf(t), MinuteOf(t))

\* dt + relativedelta(months=+1): the next month, the day clipped to its length
AddOneMonth(t) ==
    LET y == IF MonthOf(t) = 12 THEN YearOf(t) + 1 ELSE YearOf(t)
        m == IF MonthOf(t) = 12 THEN 1 ELSE MonthOf(t) + 1
        d == IF DayOf(t) > DaysInMonth(y, m) THEN DaysInMonth(y, m) ELSE DayOf(t)
    IN  MakeDT(y, m, d, HourOf(t), MinuteOf(t))

\* dt + relativedelta(days=+1)
AddOneDay(t) == t + MinutesPerDay

\* calendar.month_name[m]
MonthName(m) ==
    <<"January", "February", "March", "April", "May", "June", "July",
      "August", "September", "October", "November", "December">>[m]

---------------------------------------------------------------------------
(* Python values handed to a generator as start_date / end_date: a         *)
(* datetime, None, or a value of another type (a string).                  *)

DT(t) == [kind |-> "datetime", t |-> t]
NoneArg == [kind |-> "none", t |-> 0]
StrArg == [kind |-> "str", t |-> 0]

\* bool(x): None is false, a datetime and a non-empty string are true
Truthy(x) == x.kind # "none"
\* isinstance(x, datetime.datetime)
IsDatetime(x) == x.kind = "datetime"

---------------------------------------------------------------------------
(* AbstractGenerator._set_hours                                            *)

\* datetime.timedelta(minutes=60), in minutes
one_hour == 60

RECURSIVE HoursLoopStrict(_, _, _)
HoursLoopStrict(cur_date, end_date, hours) ==
    IF cur_date + one_hour < end_date
    THEN HoursLoopStrict(cur_date + one_hour, end_date,
                         Append(hours, [start |-> cur_date,
                                        end |-> cur_date + one_hour]))
    ELSE hours

RECURSIVE HoursLoop(_, _, _)
HoursLoop(cur_date, end_date, hours) ==
    IF cur_date + one_hour <= end_date
    THEN HoursLoop(cur_date + one_hour, end_date,
                   Append(hours, [start |-> cur_date,
                                  end |-> cur_date + one_hour]))
    ELSE hours

SetHoursNoNormalize(start_date, end_date) ==
    IF ~Truthy(start_date) \/ ~Truthy(end_date)
    THEN [err |-> "ValueError", hours |-> <<>>]
    ELSE IF ~IsDatetime(start_date) \/ ~IsDatetime(end_date)
    THEN [err |-> "ValueError", hours |-> <<>>]
    ELSE IF end_date.t < start_date.t
    THEN [err |-> "ValueError", hours |-> <<>>]
    ELSE [err |-> "", hours |-> HoursLoop(start_date.t, end_date.t, <<>>)]

SetHoursNoOrderCheck(start_date, end_date) ==
    IF ~Truthy(start_date) \/ ~Truthy(end_date)
    THEN [err |-> "ValueError", hours |-> <<>>]
    ELSE IF ~IsDatetime(start_date)
    THEN [err |-> "ValueError", hours |-> <<>>]
    ELSE IF ~IsDatetime(end_date)
    THEN [err |-> "ValueError", hours |-> <<>>]
    ELSE [err |-> "",
          hours |-> HoursLoop(start_date.t, ReplaceHour(end_date.t, 23), <<>>)]

SetHours(start_date, end_date) ==
    IF ~Truthy(start_date) \/ ~Truthy(end_date)
    THEN [err |-> "ValueError", hours |-> <<>>]
    ELSE IF ~IsDatetime(start_date)
    THEN [err |-> "ValueError", hours |-> <<>>]
    ELSE IF ~IsDatetime(end_date)
    THEN [err |-> "ValueError", hours |-> <<>>]
    ELSE IF end_date.t < start_date.t
    THEN [err |-> "ValueError", hours |-> <<>>]
    ELSE [err |-> "",
          hours |-> HoursLoop(start_date.t, ReplaceHour(end_date.t, 23), <<>>)]

---------------------------------------------------------------------------
(* report._create_month_list                                               *)

RECURSIVE MonthLoop(_, _, _, _)
MonthLoop(current, start_date, end_date, months) ==
    IF current <= end_date
    THEN LET first == MakeDT(YearOf(current), MonthOf(current), 1, 0, 0)
             last == MakeDT(YearOf(current), MonthOf(current),
                            DaysInMonth(YearOf(current), MonthOf(current)), 0, 0)
             month == [name |-> MonthName(MonthOf(current)),
                       start |-> IF MonthOf(current) = MonthOf(start_date)
                                 THEN start_date ELSE first,
                       end |-> IF MonthOf(current) = MonthOf(end_date)
                               THEN end_date ELSE last]
         IN  MonthLoop(AddOneMonth(current), start_date, end_date,
                       Append(months, month))
    ELSE months

CreateMonthList(start_date, end_date) ==
    MonthLoop(ReplaceDay(start_date, 1), start_date, end_date, <<>>)

---------------------------------------------------------------------------
(* Python values of the rows and of the attributes mapping.                *)

\* None, where it is stored in a row beside strings
None == "None"

\* A number: n / 10^s, an int (f = FALSE, s = 0) or a float (f = TRUE).
\* Binary rounding of floats is not modelled.
PyInt(n) == [f |-> FALSE, n |-> n, s |-> 0]
PyFloat(n, s) == [f |-> TRUE, n |-> n, s |-> s]

\* a * b
Mul(a, b) == [f |-> a.f \/ b.f, n |-> a.n * b.n, s |-> a.s + b.s]

\* bool(x) of a number
NumTruthy(x) == x.n # 0

RECURSIVE Pow10(_)
Pow10(s) == IF s = 0 THEN 1 ELSE 10 * Pow10(s - 1)

\* the decimal places left once the trailing zeros are dropped (one is kept)
RECURSIVE Places(_, _)
Places(n, s) == IF s > 1 /\ n % 10 = 0 THEN Places(n \div 10, s - 1) ELSE s

\* n written with at least w digits
RECURSIVE Digits(_, _)
Digits(n, w) ==
    IF w <= 1 /\ n < 10 THEN ToString(n)
    ELSE Digits(n \div 10, w - 1) \o ToString(n % 10)

\* str(x) of a non-negative number: "100" for an int, "5.0", "0.05" for a float
PyStr(x) ==
    IF ~x.f THEN ToString(x.n)
    ELSE IF x.s = 0 THEN ToString(x.n) \o ".0"
    ELSE LET p == Places(x.n, x.s)
             m == x.n \div Pow10(x.s - p)
         IN  ToString(m \div Pow10(p)) \o "." \o Digits(m % Pow10(p), p)

\* A dict: its keys in insertion order and the value of each key.
EmptyDict == [keys |-> <<>>, val |-> [k \in {} |-> ""]]

SeqToSet(s) == { s[i] : i \in DOMAIN s }

\* d[k] = v
DictSet(d, k, v) ==
    IF k \in DOMAIN d.val
    THEN [keys |-> d.keys, val |-> [d.val EXCEPT ![k] = v]]
    ELSE [keys |-> Append(d.keys, k), val |-> d.val @@ (k :> v)]

\* the member of a set of one member
Only(S) == CHOOSE v \in S : TRUE

\* the assignments d[k] = v of kvs = <<k1, v1>>, <<k2, v2>>, ..., in order:
\* a key the dict has keeps its place, a new key is appended where it is first
\* assigned, and a key holds the last value assigned to it
DictSetAll(d, kvs) ==
    Only({ LET n == Len(kv)
               IsFirstNew(i) == /\ kv[i][1] \notin DOMAIN dict.val
                                /\ \A j \in 1 .. (i - 1) : kv[j][1] # kv[i][1]
               newIdx == SelectSeq([i \in 1 .. n |-> i], IsFirstNew)
               assigned == { kv[i][1] : i \in 1 .. n }
               LastOf(k) == CHOOSE i \in 1 .. n :
                               /\ kv[i][1] = k
                               /\ \A j \in (i + 1) .. n : kv[j][1] # k
           IN  [keys |-> dict.keys
                           \o [p \in 1 .. Len(newIdx) |-> kv[newIdx[p]][1]],
                val |-> [k \in DOMAIN dict.val \cup assigned |->
                           IF k \in assigned THEN kv[LastOf(k)][2]
                           ELSE dict.val[k]]]
           : dict \in {d}, kv \in {kvs} })

\* The attributes argument of a generator: None, or a mapping.
NoAttributes == [none |-> TRUE, d |-> [k \in {} |-> ""]]
Attributes(d) == [none |-> FALSE, d |-> d]

\* bool(attributes): None and the empty mapping are false
AttrTruthy(a) == ~a.none /\ DOMAIN a.d # {}

\* bool(attributes.get(key)), for each kind of value
GetTruthy(a, key) ==
    /\ key \in DOMAIN a.d
    /\ CASE key \in {"amount", "rate"} -> NumTruthy(a.d[key])
         [] key = "product_sku" -> a.d[key] # ""
         [] key = "tags" -> DOMAIN a.d[key] # {}
         [] OTHER -> TRUE

---------------------------------------------------------------------------
(* generators/aws/aws_generator.py                                         *)

IDENTITY_COLS ==
    <<"identity/LineItemId", "identity/TimeInterval">>

BILL_COLS ==
    <<"bill/InvoiceId", "bill/BillingEntity", "bill/BillType",
      "bill/PayerAccountId", "bill/BillingPeriodStartDate",
      "bill/BillingPeriodEndDate">>

LINE_ITEM_COLS ==
    <<"lineItem/UsageAccountId", "lineItem/LineItemType",
      "lineItem/UsageStartDate", "lineItem/UsageEndDate",
      "lineItem/ProductCode", "lineItem/UsageType", "lineItem/Operation",
      "lineItem/AvailabilityZone", "lineItem/ResourceId",
      "lineItem/UsageAmount", "lineItem/NormalizationFactor",
      "lineItem/NormalizedUsageAmount", "lineItem/CurrencyCode",
      "lineItem/UnblendedRate", "lineItem/UnblendedCost",
      "lineItem/BlendedRate", "lineItem/BlendedCost",
      "lineItem/LineItemDescription", "lineItem/TaxType">>

PRODUCT_COLS ==
    <<"product/ProductName", "product/accountAssistance",
      "product/architecturalReview", "product/architectureSupport",
      "product/availability", "product/bestPractices",
      "product/caseSeverityresponseTimes", "product/clockSpeed",
      "product/comments", "product/contentType",
      "product/currentGeneration", "product/customerServiceAndCommunities",
      "product/databaseEngine", "product/dedicatedEbsThroughput",
      "product/deploymentOption", "product/description",
      "product/directorySize", "product/directoryType",
      "product/directoryTypeDescription", "product/durability",
      "product/ebsOptimized", "product/ecu", "product/endpointType",
      "product/engineCode", "product/enhancedNetworkingSupported",
      "product/feeCode", "product/feeDescription", "product/fromLocation",
      "product/fromLocationType", "product/group",
      "product/groupDescription", "product/includedServices",
      "product/instanceFamily", "product/instanceType", "product/isshadow",
      "product/iswebsocket", "product/launchSupport",
      "product/licenseModel", "product/location", "product/locationType",
      "product/maxIopsBurstPerformance", "product/maxIopsvolume",
      "product/maxThroughputvolume", "product/maxVolumeSize",
      "product/memory", "product/memoryGib",
      "product/messageDeliveryFrequency", "product/messageDeliveryOrder",
      "product/minVolumeSize", "product/networkPerformance",
      "product/operatingSystem", "product/operation",
      "product/operationsSupport", "product/origin",
      "product/physicalProcessor", "product/preInstalledSw",
      "product/proactiveGuidance", "product/processorArchitecture",
      "product/processorFeatures", "product/productFamily",
      "product/programmaticCaseManagement", "product/protocol",
      "product/provisioned", "product/queueType", "product/recipient",
      "product/region", "product/requestDescription",
      "product/requestType", "product/resourceEndpoint",
      "product/routingTarget", "product/routingType",
      "product/servicecode", "product/sku", "product/softwareType",
      "product/storage", "product/storageClass", "product/storageMedia",
      "product/storageType", "product/technicalSupport", "product/tenancy",
      "product/thirdpartySoftwareSupport", "product/toLocation",
      "product/toLocationType", "product/training", "product/transferType",
      "product/usagetype", "product/vcpu", "product/version",
      "product/virtualInterfaceType", "product/volumeType",
      "product/whoCanOpenCases">>

PRICING_COLS ==
    <<"pricing/LeaseContractLength",
      "pricing/OfferingClasspricing/PurchaseOption",
      "pricing/publicOnDemandCost", "pricing/publicOnDemandRate",
      "pricing/term", "pricing/unit">>

RESERVE_COLS ==
    <<"reservation/AvailabilityZone",
      "reservation/NormalizedUnitsPerReservation",
      "reservation/NumberOfReservations", "reservation/ReservationARN",
      "reservation/TotalReservedNormalizedUnits",
      "reservation/TotalReservedUnits", "reservation/UnitsPerReservation">>

RESOURCE_TAG_COLS ==
    <<"resourceTags/user:environment", "resourceTags/user:version">>

AWS_COLUMNS ==
    IDENTITY_COLS \o BILL_COLS \o LINE_ITEM_COLS \o PRODUCT_COLS
        \o PRICING_COLS \o RESERVE_COLS \o RESOURCE_TAG_COLS

AWSGeneratorInitSwapped(start_date, end_date, payer_account, usage_accounts, attributes, randint) ==
    LET hrs == SetHours(start_date, end_date)
    IN  [err |-> hrs.err,
         self |-> [payer_account |-> IF Len(usage_accounts) = 0 THEN payer_account
                                     ELSE usage_accounts[Len(usage_accounts)],
                   usage_accounts |-> usage_accounts,
                   attributes |-> attributes,
                   num_instances |-> IF AttrTruthy(attributes) THEN 1
                                     ELSE randint,
                   start_date |-> start_date,
                   end_date |-> end_date,
                   hours |-> hrs.hours]]

\* AWSGenerator.__init__; randint is the value randint(2, 60) returns
AWSGeneratorInit(start_date, end_date, payer_account, usage_accounts, attributes, randint) ==
    LET hrs == SetHours(start_date, end_date)
    IN  [err |-> hrs.err,
         self |-> [payer_account |-> payer_account,
                   usage_accounts |-> usage_accounts,
                   attributes |-> attributes,
                   num_instances |-> IF AttrTruthy(attributes) THEN 1
                                     ELSE randint,
                   start_date |-> start_date,
                   end_date |-> end_date,
                   hours |-> hrs.hours]]

next_month_30_days(in_date) ==
    LET dt_first == ReplaceDay(in_date, 1)
        dt_up_month == dt_first + 30 * MinutesPerDay
    IN  ReplaceDay(dt_up_month, 1)

\* AbstractGenerator.next_month
next_month(in_date) ==
    LET dt_first == ReplaceDay(in_date, 1)
        dt_up_month == dt_first + 32 * MinutesPerDay
    IN  ReplaceDay(dt_up_month, 1)

Pad2(n) == Digits(n, 2)

\* AWSGenerator.timestamp: strftime('%Y-%m-%dT%H:%M:%SZ')
timestamp(in_date) ==
    IF ~Truthy(in_date) \/ ~IsDatetime(in_date)
    THEN [err |-> "ValueError", s |-> ""]
    ELSE [err |-> "",
          s |-> Digits(YearOf(in_date.t), 4) \o "-" \o Pad2(MonthOf(in_date.t))
                \o "-" \o Pad2(DayOf(in_date.t)) \o "T"
                \o Pad2(HourOf(in_date.t)) \o ":" \o Pad2(MinuteOf(in_date.t))
                \o ":00Z"]

\* AWSGenerator.time_interval
time_interval(start, end) == timestamp(start).s \o "/" \o timestamp(end).s

\* the value _init_data_row gives a column
TemplateValue(self, column, start, end, sha1) ==
    LET bill_begin == MakeDT(YearOf(start.t), MonthOf(start.t), 1, 0, 0)
        bill_end == next_month(bill_begin)
    IN  CASE column = "identity/LineItemId" -> sha1
          [] column = "identity/TimeInterval" -> time_interval(start, end)
          [] column = "bill/BillingEntity" -> "AWS"
          [] column = "bill/BillType" -> "Anniversary"
          [] column = "bill/PayerAccountId" -> self.payer_account
          [] column = "bill/BillingPeriodStartDate" -> timestamp(DT(bill_begin)).s
          [] column = "bill/BillingPeriodEndDate" -> timestamp(DT(bill_end)).s
          [] OTHER -> ""

\* AWSGenerator._init_data_row; sha1 is the value fake.sha1 returns
InitDataRow(self, start, end, sha1) ==
    IF ~Truthy(start) \/ ~Truthy(end) \/ ~IsDatetime(start) \/ ~IsDatetime(end)
    THEN [err |-> "ValueError", row |-> EmptyDict]
    ELSE [err |-> "",
          \* for column in AWS_COLUMNS: row[column] = ...  (AWS_COLUMNS names
          \* no column twice, so the keys are AWS_COLUMNS in its order)
          row |-> [keys |-> AWS_COLUMNS,
                   val |-> [column \in SeqToSet(AWS_COLUMNS) |->
                              TemplateValue(self, column, start, end, sha1)]]]

REGIONS ==
    << <<"US East (N. Virginia)", "us-east-1", "us-east-1a", "USE1-EBS">>,
       <<"US East (N. Virginia)", "us-east-1", "us-east-1b", "USE1-EBS">>,
       <<"US West (N. California)", "us-west-1", "us-west-1a", "USW1-EBS">>,
       <<"US West (N. California)", "us-west-1", "us-west-1b", "USW1-EBS">>,
       <<"US West (Oregon)", "us-west-2", "us-west-2a", "USW2-EBS">>,
       <<"US West (Oregon)", "us-west-2", "us-west-2b", "USW2-EBS">> >>

\* AWSGenerator._get_location; region is the member choice(REGIONS) draws
GetLocation(self, region) ==
    IF AttrTruthy(self.attributes) THEN REGIONS[1] ELSE region

AddCommonUsageInfoTypo(self, row, start, end, account) ==
    DictSetAll(row, << <<"lineItem/UsageAccountID", account>>,
                       <<"lineItem/LineItemType", "Usage">>,
                       <<"lineItem/UsageStartDate", start.t>>,
                       <<"lineItem/UsageEndDate", end.t>> >>)

\* AWSGenerator._add_common_usage_info; account is the member
\* choice(self.usage_accounts) draws
AddCommonUsageInfo(self, row, start, end, account) ==
    DictSetAll(row, << <<"lineItem/UsageAccountId", account>>,
                       <<"lineItem/LineItemType", "Usage">>,
                       <<"lineItem/UsageStartDate", start.t>>,
                       <<"lineItem/UsageEndDate", end.t>> >>)

---------------------------------------------------------------------------
(* generators/aws/s3_generator.py                                          *)

ENV_OPTIONS == <<"dev", "ci", "qa", "stage", "prod">>
VERSION_OPTIONS == <<"alpha", "beta">>

\* S3Generator.__init__; rnd holds what uniform, fake.pystr and randint return
S3GeneratorInit(start_date, end_date, payer_account, usage_accounts, attributes, rnd) ==
    LET base == AWSGeneratorInit(start_date, end_date, payer_account,
                                 usage_accounts, attributes, rnd.randint)
        pinned == AttrTruthy(attributes)
        setsTags == pinned /\ GetTruthy(attributes, "tags")
    IN  [err |-> base.err,
         self |-> base.self @@
            [amount |-> IF pinned /\ GetTruthy(attributes, "amount")
                        THEN attributes.d["amount"] ELSE rnd.amount,
             rate |-> IF pinned /\ GetTruthy(attributes, "rate")
                      THEN attributes.d["rate"] ELSE rnd.rate,
             product_sku |-> IF pinned /\ GetTruthy(attributes, "product_sku")
                             THEN attributes.d["product_sku"] ELSE rnd.sku,
             s3_attributes |-> IF pinned THEN attributes ELSE NoAttributes,
             \* self._tags exists only once line 43 has assigned it
             has_tags |-> setsTags,
             tags |-> IF setsTags THEN attributes.d["tags"]
                      ELSE [k \in {} |-> ""]]]

\* S3Generator._get_arn; ean8 is the value fake.ean8 returns
GetArn(self, avail_zone, ean8) ==
    "arn:aws:ec2:" \o avail_zone \o ":" \o self.payer_account
        \o ":snapshot/snap-" \o ean8

\* S3Generator._pick_tag; option is the member choice(options) draws
PickTag(self, tag_key, option) ==
    IF ~self.has_tags THEN [err |-> "AttributeError", tag |-> None]
    ELSE IF DOMAIN self.tags # {}
    THEN [err |-> "",
          tag |-> IF tag_key \in DOMAIN self.tags THEN self.tags[tag_key]
                  ELSE None]
    ELSE IF AttrTruthy(self.s3_attributes) THEN [err |-> "", tag |-> None]
    ELSE [err |-> "", tag |-> option]

S3UpdateDataCostIsAmount(self, row0, start, end, rnd) ==
    LET row == AddCommonUsageInfo(self, row0, start, end, rnd.account)
        rate == self.rate
        amount == self.amount
        cost == amount
        loc == GetLocation(self, rnd.region)
        location == loc[1]
        aws_region == loc[2]
        avail_zone == loc[3]
        description == "$" \o PyStr(rate)
                         \o " per GB-Month of snapshot data stored - " \o location
        amazon_resource_name == GetArn(self, avail_zone, rnd.ean8)
        env == PickTag(self, "resourceTags/user:environment", rnd.env)
        ver == PickTag(self, "resourceTags/user:version", rnd.version)
    IN  IF Len(self.usage_accounts) = 0  \* choice of an empty tuple
        THEN [err |-> "IndexError", row |-> row0]
        ELSE IF env.err # "" THEN [err |-> env.err, row |-> row]
        ELSE IF ver.err # "" THEN [err |-> ver.err, row |-> row]
        ELSE [err |-> "",
              row |-> DictSetAll(row,
                << <<"lineItem/ProductCode", "AmazonS3">>,
                   <<"lineItem/UsageType", "Requests-Tier2">>,
                   <<"lineItem/Operation", "GetObject">>,
                   <<"lineItem/ResourceId", amazon_resource_name>>,
                   <<"lineItem/UsageAmount", PyStr(amount)>>,
                   <<"lineItem/CurrencyCode", "USD">>,
                   <<"lineItem/UnblendedRate", PyStr(rate)>>,
                   <<"lineItem/UnblendedCost", PyStr(cost)>>,
                   <<"lineItem/BlendedRate", PyStr(rate)>>,
                   <<"lineItem/BlendedCost", PyStr(cost)>>,
                   <<"lineItem/LineItemDescription", description>>,
                   <<"product/ProductName", "Amazon Simple Storage Service">>,
                   <<"product/location", location>>,
                   <<"product/locationType", "AWS Region">>,
                   <<"product/productFamily", "Storage Snapshot">>,
                   <<"product/region", aws_region>>,
                   <<"product/servicecode", "AmazonS3">>,
                   <<"product/sku", self.product_sku>>,
                   <<"product/storageMedia", "Amazon S3">>,
                   <<"product/usagetype", "Requests-Tier2">>,
                   <<"pricing/publicOnDemandCost", PyStr(cost)>>,
                   <<"pricing/publicOnDemandRate", PyStr(rate)>>,
                   <<"pricing/term", "OnDemand">>,
                   <<"pricing/unit", "GB-Mo">>,
                   <<"resourceTags/user:environment", env.tag>>,
                   <<"resourceTags/user:version", ver.tag>> >>)]

\* S3Generator._update_data; rnd holds the members the random draws return
S3UpdateData(self, row0, start, end, rnd) ==
    LET row == AddCommonUsageInfo(self, row0, start, end, rnd.account)
        rate == self.rate
        amount == self.amount
        cost == Mul(amount, rate)
        loc == GetLocation(self, rnd.region)
        location == loc[1]
        aws_region == loc[2]
        avail_zone == loc[3]
        description == "$" \o PyStr(rate)
                         \o " per GB-Month of snapshot data stored - " \o location
        amazon_resource_name == GetArn(self, avail_zone, rnd.ean8)
        env == PickTag(self, "resourceTags/user:environment", rnd.env)
        ver == PickTag(self, "resourceTags/user:version", rnd.version)
    IN  IF Len(self.usage_accounts) = 0  \* choice of an empty tuple
        THEN [err |-> "IndexError", row |-> row0]
        ELSE IF env.err # "" THEN [err |-> env.err, row |-> row]
        ELSE IF ver.err # "" THEN [err |-> ver.err, row |-> row]
        ELSE [err |-> "",
              row |-> DictSetAll(row,
                << <<"lineItem/ProductCode", "AmazonS3">>,
                   <<"lineItem/UsageType", "Requests-Tier2">>,
                   <<"lineItem/Operation", "GetObject">>,
                   <<"lineItem/ResourceId", amazon_resource_name>>,
                   <<"lineItem/UsageAmount", PyStr(amount)>>,
                   <<"lineItem/CurrencyCode", "USD">>,
                   <<"lineItem/UnblendedRate", PyStr(rate)>>,
                   <<"lineItem/UnblendedCost", PyStr(cost)>>,
                   <<"lineItem/BlendedRate", PyStr(rate)>>,
                   <<"lineItem/BlendedCost", PyStr(cost)>>,
                   <<"lineItem/LineItemDescription", description>>,
                   <<"product/ProductName", "Amazon Simple Storage Service">>,
                   <<"product/location", location>>,
                   <<"product/locationType", "AWS Region">>,
                   <<"product/productFamily", "Storage Snapshot">>,
                   <<"product/region", aws_region>>,
                   <<"product/servicecode", "AmazonS3">>,
                   <<"product/sku", self.product_sku>>,
                   <<"product/storageMedia", "Amazon S3">>,
                   <<"product/usagetype", "Requests-Tier2">>,
                   <<"pricing/publicOnDemandCost", PyStr(cost)>>,
                   <<"pricing/publicOnDemandRate", PyStr(rate)>>,
                   <<"pricing/term", "OnDemand">>,
                   <<"pricing/unit", "GB-Mo">>,
                   <<"resourceTags/user:environment", env.tag>>,
                   <<"resourceTags/user:version", ver.tag>> >>)]

---------------------------------------------------------------------------
(* report._aws_finalize_report                                             *)

AwsFinalizeReportPerRow(data, invoice_ids) ==
    [arg |-> data,
     ret |-> [i \in 1 .. Len(data) |->
                DictSet(data[i], "bill/InvoiceId", invoice_ids[(i % 2) + 1])]]

AwsFinalizeReportInPlace(data, invoice_ids) ==
    LET out == [i \in 1 .. Len(data) |->
                  DictSet(data[i], "bill/InvoiceId", invoice_ids[1])]
    IN  [arg |-> out, ret |-> out]

\* _aws_finalize_report(data): `arg` is the caller's list once the call has
\* returned (the function works on a deep copy, so it is untouched) and `ret`
\* the list returned. invoice_ids holds the values the random draw of the
\* identifier can return each time it is made; it is made once.
AwsFinalizeReport(data, invoice_ids) ==
    LET invoice_id == invoice_ids[1]
    IN  [arg |-> data,
         ret |-> [i \in 1 .. Len(data) |->
                    DictSet(data[i], "bill/InvoiceId", invoice_id)]]

\* the 9-digit identifiers the draw can return, as (first draw, second draw)
InvoiceDraws ==
    { <<"123456789", "987654321">>, <<"000000000", "000000001">> }

---------------------------------------------------------------------------
(* report.py: the parts of a run of aws_create_report, ocp_create_report   *)

\* _generate_accounts; fake holds the five values Faker's ean draws return
GenerateAccounts(static_report_data, fake) ==
    IF static_report_data.given
    THEN [payer_account |-> static_report_data.payer,
          usage_accounts |-> static_report_data.user]
    ELSE [payer_account |-> fake[1],
          usage_accounts |-> <<fake[1], fake[2], fake[3], fake[4], fake[5]>>]

\* strftime('%Y-%m-%d'), the form the dates of a static file are written in
DateStr(t) ==
    Digits(YearOf(t), 4) \o "-" \o Pad2(MonthOf(t)) \o "-" \o Pad2(DayOf(t))

\* the days a static file's start_date and end_date name
StaticDays ==
    { MakeDT(FirstYear, 12, 29, 0, 0), MakeDT(FirstYear, 12, 30, 0, 0),
      MakeDT(FirstYear + 1, 1, 1, 0, 0) }

\* dateutil's parser.parse, on the dates of StaticDays
ParseDate(s) == CHOOSE t \in StaticDays : DateStr(t) = s

\* the loop body of _get_generators for one item of the list
GetGenerator(item) ==
    LET attributes == item.attributes
        parsed == [k \in DOMAIN attributes.d |->
                     IF k \in {"start_date", "end_date"}
                     THEN ParseDate(attributes.d[k]) ELSE attributes.d[k]]
    IN  [generator |-> item.generator,
         attributes |-> [none |-> FALSE, d |-> parsed]]

\* _get_generators: attributes.get of an item without attributes raises
GetGenerators(generator_list) ==
    IF \E i \in DOMAIN generator_list : generator_list[i].attributes.none
    THEN [err |-> "AttributeError", generators |-> <<>>]
    ELSE [err |-> "",
          generators |-> [i \in DOMAIN generator_list |->
                            GetGenerator(generator_list[i])]]

\* the built-in generator lists of aws_create_report and ocp_create_report
AwsDefaultGenerators ==
    << [generator |-> "DataTransferGenerator", attributes |-> NoAttributes],
       [generator |-> "EBSGenerator", attributes |-> NoAttributes],
       [generator |-> "EC2Generator", attributes |-> NoAttributes],
       [generator |-> "S3Generator", attributes |-> NoAttributes] >>

OcpDefaultGenerators ==
    << [generator |-> "OCPGenerator", attributes |-> NoAttributes] >>

\* gen_start_date and gen_end_date of one generator of one month
GenDatesOf(month, attributes) ==
    [gen_start_date |-> IF AttrTruthy(attributes)
                           /\ GetTruthy(attributes, "start_date")
                        THEN attributes.d["start_date"] ELSE month.start,
     gen_end_date |-> IF AttrTruthy(attributes)
                         /\ GetTruthy(attributes, "end_date")
                      THEN attributes.d["end_date"] ELSE month.end]

\* The rows of a run are held by these columns, the ones the properties of a
\* run speak of, in the order AWS_COLUMNS gives them.
RunColumns ==
    <<"identity/TimeInterval", "bill/InvoiceId", "bill/PayerAccountId",
      "lineItem/UsageAccountId", "lineItem/UsageStartDate",
      "lineItem/UsageEndDate", "lineItem/ProductCode">>

RunColumnSet == SeqToSet(RunColumns)

\* a row, restricted to RunColumns
Narrow(row) ==
    Only({ LET InRun(c) == c \in RunColumnSet
           IN  [keys |-> SelectSeq(r.keys, InRun),
                val |-> [c \in DOMAIN r.val \cap RunColumnSet |-> r.val[c]]]
           : r \in {row} })

\* the row of _init_data_row, restricted to RunColumns
InitRunRow(self, start, end, sha1) ==
    [keys |-> RunColumns,
     val |-> [column \in RunColumnSet |->
                TemplateValue(self, column, start, end, sha1)]]

\* the product code of the generators whose fill step is not S3Generator's
ProductCodeOf(generator_cls) ==
    CASE generator_cls = "DataTransferGenerator" -> "AmazonEC2"
      [] generator_cls = "EBSGenerator" -> "AmazonEC2"
      [] generator_cls = "EC2Generator" -> "AmazonEC2"
      [] OTHER -> ""

\* _update_data of DataTransferGenerator, EBSGenerator and EC2Generator, on
\* the columns of RunColumns: the common usage fields and the product code
OtherUpdateData(generator_cls, self, row0, start, end, rnd) ==
    IF Len(self.usage_accounts) = 0
    THEN [err |-> "IndexError", row |-> row0]
    ELSE [err |-> "",
          row |-> DictSet(AddCommonUsageInfo(self, row0, start, end, rnd.account),
                          "lineItem/ProductCode", ProductCodeOf(generator_cls))]

\* the values the draws of a generator return while it makes its i-th row:
\* the choices go round the members they are made among
RunRnd(usage_accounts, i) ==
    [account |-> IF Len(usage_accounts) = 0 THEN ""
                 ELSE usage_accounts[(i % Len(usage_accounts)) + 1],
     ean8 |-> "00000017", region |-> REGIONS[(i % Len(REGIONS)) + 1],
     env |-> ENV_OPTIONS[(i % Len(ENV_OPTIONS)) + 1],
     version |-> VERSION_OPTIONS[(i % Len(VERSION_OPTIONS)) + 1],
     amount |-> PyFloat(25050, 2), rate |-> PyFloat(3, 2),
     sku |-> "QWERTYUIOPAS", randint |-> 2]

\* gen = generator_cls(...); gen.generate_data() of aws_create_report, the
\* rows restricted to RunColumns; an exception of the constructor or of a row
\* ends the call without rows
AwsGenerateData(generator_cls, start_date, end_date, payer_account, usage_accounts, attributes) ==
    LET rnd0 == RunRnd(usage_accounts, 0)
        init == IF generator_cls = "S3Generator"
                THEN S3GeneratorInit(DT(start_date), DT(end_date), payer_account,
                                     usage_accounts, attributes, rnd0)
                ELSE AWSGeneratorInit(DT(start_date), DT(end_date), payer_account,
                                      usage_accounts, attributes, rnd0.randint)
        \* one pass of the loop of _generate_hourly_data
        RowAt(self, i) ==
            LET start == DT(self.hours[i].start)
                end == DT(self.hours[i].end)
                row == InitRunRow(self, start, end, "sha1")
                rnd == RunRnd(usage_accounts, i)
            IN  IF generator_cls = "S3Generator"
                THEN S3UpdateData(self, row, start, end, rnd)
                ELSE OtherUpdateData(generator_cls, self, row, start, end, rnd)
        Made(self) ==
            [i \in 1 .. Len(self.hours) |->
               Only({ [err |-> r.err, row |-> Narrow(r.row)]
                      : r \in {RowAt(self, i)} })]
        Result(made) ==
            LET raised == { i \in DOMAIN made : made[i].err # "" }
            IN  IF raised # {}
                THEN [err |-> made[CHOOSE i \in raised :
                                     \A j \in raised : i <= j].err,
                      rows |-> <<>>]
                ELSE [err |-> "", rows |-> [i \in DOMAIN made |-> made[i].row]]
    IN  Only({ IF made_init.err # "" THEN [err |-> made_init.err, rows |-> <<>>]
               ELSE Only({ Result(made)
                           : made \in { Made(self) : self \in {made_init.self} } })
               : made_init \in {init} })

\* the columns of an OCP report the properties of a run speak of
OCP_COLUMNS == <<"interval_start", "interval_end">>

\* gen = OCPGenerator(...); gen.generate_data() of ocp_create_report: one row
\* for each hour of the timeline
OcpGenerateData(generator_cls, start_date, end_date, attributes) ==
    Only({ [err |-> hrs.err,
            rows |-> [i \in 1 .. Len(hrs.hours) |->
                        [keys |-> OCP_COLUMNS,
                         val |-> [c \in SeqToSet(OCP_COLUMNS) |->
                                    IF c = "interval_start"
                                    THEN hrs.hours[i].start
                                    ELSE hrs.hours[i].end]]]]
           : hrs \in {SetHours(DT(start_date), DT(end_date))} })

\* month_output_file_name and the names of the files written from it
MonthOutputFileName(month, gen_start_date, report_name) ==
    month.name \o "-" \o ToString(YearOf(gen_start_date)) \o "-" \o report_name

CsvFile(file_name) == file_name \o ".csv"

FinalizedFileName(month_output_file_name) == month_output_file_name \o "-finalized"

WriteCsvReversed(m, output_file, data, header) ==
    [m |-> m, file |-> output_file, header |-> header,
     rows |-> [i \in 1 .. Len(data) |-> data[Len(data) + 1 - i]]]

\* _write_csv: the file, its header and its rows
WriteCsv(m, output_file, data, header) ==
    [m |-> m, file |-> output_file, header |-> header, rows |-> data]

\* os.path.isdir of a delivery destination
LocalDir == "/var/tmp/local_dir"
IsDir(destination) == destination = LocalDir

\* aws_generate_manifest: the path of the report in the bucket and the
\* manifest, made of the values it is given
AwsGenerateManifest(assembly_id, manifest_values) ==
    [s3_cur_path |-> <<manifest_values.aws_report_name,
                       DateStr(manifest_values.start_date) \o "-"
                           \o DateStr(manifest_values.end_date),
                       assembly_id,
                       manifest_values.aws_report_name \o "-1.csv.gz">>,
     manifest_data |-> [account |-> manifest_values.account,
                        assemblyId |-> assembly_id,
                        reportName |-> manifest_values.aws_report_name,
                        start_date |-> manifest_values.start_date,
                        end_date |-> manifest_values.end_date]]

\* ocp_generate_manifest
OcpGenerateManifest(manifest_values) ==
    [uuid |-> manifest_values.ocp_assembly_id,
     cluster_id |-> manifest_values.ocp_cluster_id,
     date |-> manifest_values.report_datetime]

\* os.path.dirname of a path held as its components
Dirname(path) == SubSeq(path, 1, Len(path) - 1)

\* a temporary file: n tells the temporary files of a run apart
TempFile(n, m, kind, of) == [n |-> n, m |-> m, kind |-> kind, of |-> of]
NoFile == TempFile(0, 0, "", "")

AwsRouteViaSwapped(bucket_name) ==
    IF IsDir(bucket_name) THEN "upload_to_s3" ELSE "copy_to_local_dir"

\* aws_route_file: the collaborator the file is handed to
AwsRouteVia(bucket_name) ==
    IF IsDir(bucket_name) THEN "copy_to_local_dir" ELSE "upload_to_s3"

\* what a delivery can come to. requests.post returns a response, of status
\* 202 or of another status, or raises when the host cannot be reached;
\* upload_to_s3 returns whether the upload succeeded. failures is the number of
\* deliveries of the run that have failed so far.
AwsRouteResults(bucket_name, failures) ==
    IF IsDir(bucket_name) \/ failures >= MaxFailures THEN {"ok"}
    ELSE {"ok", "failed"}

OcpRouteVia(insights_upload) ==
    IF IsDir(insights_upload) THEN "extract_payload" ELSE "requests.post"

OcpRouteResults(insights_upload, failures) ==
    IF IsDir(insights_upload) \/ failures >= MaxFailures THEN {"ok"}
    ELSE {"ok", "failed", "ConnectionError"}

\* the locals of a run before the month loop has bound them
NoLocals ==
    [bound |-> FALSE, gen_start_date |-> 0, gen_end_date |-> 0,
     month_output_file |-> "", manifest_data |-> <<>>,
     paths |-> <<>>, temp_manifest |-> NoFile, temp_cur_zip |-> NoFile,
     temp_usage_file |-> NoFile, temp_manifest_name |-> NoFile,
     temp_usage_zip |-> NoFile]

---------------------------------------------------------------------------
(* Each specification below runs one part of the program; the variables of *)
(* the other parts stay at these values.                                   *)

TLIdle ==
    /\ tl_start = NoneArg /\ tl_end = NoneArg
    /\ tl_result = [err |-> "", hours |-> <<>>] /\ tl_pc = "idle"

MLIdle == ml_start = 0 /\ ml_end = 0 /\ ml_months = <<>> /\ ml_pc = "idle"

GenIdle ==
    /\ g_args = <<>> /\ g_pc = "idle" /\ g_err = "" /\ g_self = <<>>
    /\ g_data = <<>> /\ g_out = <<>>

FinIdle == f_in = <<>> /\ f_data = <<>> /\ f_ret = <<>> /\ f_pc = "idle"

ReportIdle ==
    /\ r_opts = <<>> /\ r_pc = "idle" /\ r_err = ""
    /\ r_gens = <<>> /\ r_months = <<>>
    /\ r_m = 0 /\ r_g = 0 /\ r_k = 0
    /\ r_payer = "" /\ r_usage = <<>>
    /\ r_data = <<>> /\ r_loc = <<>>
    /\ r_writes = <<>> /\ r_tmp = {} /\ r_ntmp = 0 /\ r_sent = <<>>

---------------------------------------------------------------------------
(* Specification SpecHours: _set_hours applied to a bounded set of         *)
(* start/end pairs.                                                        *)

\* the days the timeline's inputs fall on: the last days of a December on
TLDayStarts ==
    { MakeDT(FirstYear, 12, 31, 0, 0) + k * MinutesPerDay : k \in 0 .. (MaxDays - 1) }

TLTimes == { d + h * 60 + mi : d \in TLDayStarts, h \in {0, 10, 22, 23},
                               mi \in {0, 5, 50} }

TLArgs == { DT(t) : t \in TLTimes } \cup {NoneArg, StrArg}

InitHours ==
    /\ tl_start \in TLArgs
    /\ tl_end \in TLArgs
    /\ tl_result = [err |-> "", hours |-> <<>>]
    /\ tl_pc = "new"
    /\ MLIdle /\ GenIdle /\ FinIdle /\ ReportIdle

BuildTimeline ==
    /\ tl_pc = "new"
    /\ tl_result' = SetHours(tl_start, tl_end)
    /\ tl_pc' = "built"
    /\ UNCHANGED <<tl_start, tl_end, ml_vars, g_vars, f_vars, r_vars>>

NextHours == BuildTimeline

SpecHours == InitHours /\ [][NextHours]_vars

\* end with its hour field replaced by 23, by arithmetic on the minutes
NormalizedEnd(t) == (t \div MinutesPerDay) * MinutesPerDay + 23 * 60 + (t % 60)

\* the start/end pairs the timeline is defined for
TLValidPair ==
    /\ tl_start.kind = "datetime" /\ tl_end.kind = "datetime"
    /\ tl_start.t <= tl_end.t

\* C1: for start <= end the timeline is exactly the windows
\* {start + k h, start + (k+1) h}, k = 0..n-1, n the number of whole hours
\* between start and end with its hour replaced by 23: one hour each,
\* contiguous, the first at start, none ending after the normalized end.
C1_TimelineIsHourlyWindows ==
    (tl_pc = "built" /\ TLValidPair) =>
        LET n == (NormalizedEnd(tl_end.t) - tl_start.t) \div 60
            hours == tl_result.hours
        IN  /\ tl_result.err = ""
            /\ Len(hours) = n
            /\ \A k \in 1 .. Len(hours) :
                  /\ hours[k].start = tl_start.t + (k - 1) * 60
                  /\ hours[k].end = hours[k].start + 60
                  /\ hours[k].end <= NormalizedEnd(tl_end.t)
                  /\ k > 1 => hours[k].start = hours[k - 1].end

\* a timeline of more than a day's windows was built from a start with minutes
C1_Witness ==
    /\ tl_pc = "built" /\ TLValidPair
    /\ Len(tl_result.hours) > 24
    /\ tl_start.t % 60 # 0
    /\ tl_result.hours[1].start = tl_start.t

---------------------------------------------------------------------------
(* Specification SpecMonths: _create_month_list applied to a bounded set   *)
(* of date ranges (dates at midnight).                                     *)

MLYears == FirstYear .. (FirstYear + MaxYears - 1)

MLDates == { MakeDT(y, m, d, 0, 0) :
                y \in MLYears, m \in 1 .. 12, d \in {1, 15} }
           \cup { MakeDT(y, m, DaysInMonth(y, m), 0, 0) :
                y \in MLYears, m \in 1 .. 12 }

InitMonths ==
    /\ ml_start \in MLDates
    /\ ml_end \in MLDates
    /\ ml_months = <<>>
    /\ ml_pc = "new"
    /\ TLIdle /\ GenIdle /\ FinIdle /\ ReportIdle

SegmentMonths ==
    /\ ml_pc = "new"
    /\ ml_months' = CreateMonthList(ml_start, ml_end)
    /\ ml_pc' = "done"
    /\ UNCHANGED <<ml_start, ml_end, tl_vars, g_vars, f_vars, r_vars>>

NextMonths == SegmentMonths

SpecMonths == InitMonths /\ [][NextMonths]_vars

\* the number of calendar months the range ml_start..ml_end touches
MonthsTouched ==
    (YearOf(ml_end) * 12 + MonthOf(ml_end))
        - (YearOf(ml_start) * 12 + MonthOf(ml_start)) + 1

\* the first day of the calendar month k months after the month of t
MonthStartAfter(t, k) ==
    LET idx == YearOf(t) * 12 + (MonthOf(t) - 1) + k
    IN  MakeDT(idx \div 12, (idx % 12) + 1, 1, 0, 0)

\* C3: for start_date <= end_date touching N calendar months (any N, more
\* than twelve included) _create_month_list returns N segments in
\* chronological order, one per month touched: the first starts at
\* start_date, the last ends at end_date, every other boundary is the first
\* or last day of its own month, and the segments cover the range with no
\* gap and no overlap.
C3_OneSegmentPerMonth ==
    (ml_pc = "done" /\ ml_start <= ml_end) =>
        LET n == MonthsTouched
        IN  /\ Len(ml_months) = n
            /\ \A i \in 1 .. Len(ml_months) :
                  LET first == MonthStartAfter(ml_start, i - 1)
                      last == MakeDT(YearOf(first), MonthOf(first),
                                     DaysInMonth(YearOf(first), MonthOf(first)),
                                     0, 0)
                  IN  /\ ml_months[i].start = IF i = 1 THEN ml_start ELSE first
                      /\ ml_months[i].end = IF i = n THEN ml_end ELSE last
                      /\ ml_months[i].start <= ml_months[i].end
                      /\ i > 1 => ml_months[i].start
                                    = ml_months[i - 1].end + MinutesPerDay

\* C14 as stated: for every caller range with end_date earlier than
\* start_date, in the same calendar month or not, _create_month_list fails
\* with an error and returns no segments; a call that failed never reaches
\* its return statement.
C14_ReversedRangeFails ==
    ml_end < ml_start => ml_pc # "done"

---------------------------------------------------------------------------
(* Specification SpecGen: one S3Generator, constructed and asked for its   *)
(* rows; a step of GenerateHour is one iteration of the loop of            *)
(* _generate_hourly_data.                                                  *)

\* the times the generator's start and end are drawn from: New Year's Eve
GenTimes == { MakeDT(FirstYear, 12, 31, h, mi) : h \in {21, 23}, mi \in {0, 30} }

GenDates == { DT(t) : t \in GenTimes } \cup {NoneArg, StrArg}

TagsBoth == [k \in {"resourceTags/user:environment", "resourceTags/user:version"}
               |-> IF k = "resourceTags/user:environment" THEN "prod" ELSE "beta"]
TagsEnvOnly == [k \in {"resourceTags/user:environment"} |-> "qa"]
TagsEmpty == [k \in {} |-> ""]

\* the attributes mappings the generator is given
GenAttributes ==
    { NoAttributes,
      Attributes([k \in {} |-> ""]),
      Attributes([amount |-> PyInt(100), rate |-> PyFloat(5, 2)]),
      Attributes([tags |-> TagsBoth]),
      Attributes([tags |-> TagsEnvOnly]),
      Attributes([tags |-> TagsEmpty]),
      Attributes([amount |-> PyInt(0), tags |-> TagsBoth]),
      Attributes([amount |-> PyInt(100), rate |-> PyFloat(5, 2),
                  product_sku |-> "PINNEDSKU001", tags |-> TagsBoth]) }

GenPayer == "9999999999999"
GenUsageAccounts == <<"9999999999999", "1234567890128">>

\* what the random draws of __init__ can return
InitDraws ==
    [amount : {PyFloat(25050, 2)}, rate : {PyFloat(3, 2)},
     sku : {"QWERTYUIOPAS"}, randint : {2, 60}]

\* what the random draws of one loop iteration can return
RowDraws(self) ==
    [sha1 : {"sha1-a", "sha1-b"},
     account : SeqToSet(self.usage_accounts),
     ean8 : {"00000017", "12345670"},
     region : IF AttrTruthy(self.attributes) THEN {REGIONS[1]}
              ELSE {REGIONS[1], REGIONS[5]},
     env : IF self.has_tags THEN {ENV_OPTIONS[1]} ELSE {"dev", "prod"},
     version : IF self.has_tags THEN {VERSION_OPTIONS[1]} ELSE {"alpha", "beta"}]

InitGen ==
    /\ g_args \in [start_date : GenDates, end_date : GenDates,
                    payer_account : {GenPayer},
                    usage_accounts : {GenUsageAccounts},
                    attributes : GenAttributes]
    /\ g_pc = "new" /\ g_err = "" /\ g_self = <<>>
    /\ g_data = <<>> /\ g_out = <<>>
    /\ TLIdle /\ MLIdle /\ FinIdle /\ ReportIdle

\* S3Generator(start_date, end_date, payer_account, usage_accounts, attributes)
Construct ==
    /\ g_pc = "new"
    /\ \E rnd \in InitDraws :
         LET r == S3GeneratorInit(g_args.start_date, g_args.end_date,
                                  g_args.payer_account, g_args.usage_accounts,
                                  g_args.attributes, rnd)
         IN  IF r.err # ""
             THEN g_pc' = "failed" /\ g_err' = r.err /\ g_self' = g_self
             ELSE g_pc' = "ready" /\ g_err' = "" /\ g_self' = r.self
    /\ UNCHANGED <<g_args, g_data, g_out, tl_vars, ml_vars, f_vars, r_vars>>

\* one iteration of the loop of _generate_hourly_data
GenerateHour ==
    /\ g_pc = "ready"
    /\ Len(g_data) < Len(g_self.hours)
    /\ \E rnd \in RowDraws(g_self) :
         LET hour == g_self.hours[Len(g_data) + 1]
             start == DT(hour.start)
             end == DT(hour.end)
             init == InitDataRow(g_self, start, end, rnd.sha1)
             upd == S3UpdateData(g_self, init.row, start, end, rnd)
         IN  IF init.err # ""
             THEN g_pc' = "raised" /\ g_err' = init.err /\ g_data' = g_data
             ELSE IF upd.err # ""
             THEN g_pc' = "raised" /\ g_err' = upd.err /\ g_data' = g_data
             ELSE g_pc' = g_pc /\ g_err' = g_err /\ g_data' = Append(g_data, upd.row)
    /\ UNCHANGED <<g_args, g_self, g_out, tl_vars, ml_vars, f_vars, r_vars>>

\* the loop is over: generate_data returns the rows
ReturnData ==
    /\ g_pc = "ready"
    /\ Len(g_data) = Len(g_self.hours)
    /\ g_out' = g_data
    /\ g_pc' = "done"
    /\ UNCHANGED <<g_args, g_err, g_self, g_data, tl_vars, ml_vars, f_vars, r_vars>>

NextGen == Construct \/ GenerateHour \/ ReturnData

SpecGen == InitGen /\ [][NextGen]_vars

\* start and end are date-times of the same clock hour of the same day
GenSameHour ==
    /\ g_args.start_date.kind = "datetime" /\ g_args.end_date.kind = "datetime"
    /\ g_args.start_date.t <= g_args.end_date.t
    /\ g_args.start_date.t \div 60 = g_args.end_date.t \div 60

\* C2 as stated: when start and end fall within the same clock hour of the
\* same day, construction succeeds and the timeline is empty, so
\* generate_data returns no rows.
C2_SameHourTimelineEmpty ==
    (GenSameHour /\ g_pc # "new") =>
        /\ g_pc # "failed"
        /\ g_self.hours = <<>>
        /\ g_pc = "done" => g_out = <<>>

\* C2 amended: when start and end fall within the same clock hour h of the
\* same day, construction succeeds and the timeline has 23 - h windows; for
\* h = 23 it is empty and generate_data returns no rows.
C2_SameHourTimelineToHour23 ==
    (GenSameHour /\ g_pc # "new") =>
        LET h == (g_args.start_date.t % MinutesPerDay) \div 60
        IN  /\ g_pc # "failed"
            /\ Len(g_self.hours) = 23 - h
            /\ h = 23 => /\ g_pc # "raised"
                         /\ g_data = <<>>
                         /\ g_pc = "done" => g_out = <<>>

\* generate_data returned no rows for a start and end within hour 23
C2_Witness ==
    /\ GenSameHour /\ g_pc = "done" /\ g_out = <<>>
    /\ g_args.start_date.t < g_args.end_date.t
    /\ (g_args.start_date.t % MinutesPerDay) \div 60 = 23

TagColumns == SeqToSet(RESOURCE_TAG_COLS)

\* C4: for every tag column of every row: the supplied value for that key if
\* the attributes supply tags; no value if the generator has non-empty
\* attributes without tags; a member of the column's option set if it has
\* no attributes at all. In all three cases generate_data completes and
\* returns rows.
C4_ThreeWayTagPolicy ==
    g_pc \in {"ready", "raised", "done"} =>
        LET a == g_args.attributes
        IN  /\ g_pc # "raised"
            /\ \A i \in 1 .. Len(g_data) : \A c \in TagColumns :
                  LET tag == g_data[i].val[c]
                  IN  IF GetTruthy(a, "tags")
                      THEN tag = IF c \in DOMAIN a.d["tags"]
                                 THEN a.d["tags"][c] ELSE None
                      ELSE IF AttrTruthy(a) THEN tag = None
                      ELSE tag \in SeqToSet(IF c = RESOURCE_TAG_COLS[1]
                                            THEN ENV_OPTIONS ELSE VERSION_OPTIONS)

\* the columns _init_data_row fills
TemplateColumns ==
    {"identity/LineItemId", "identity/TimeInterval", "bill/BillingEntity",
     "bill/BillType", "bill/PayerAccountId", "bill/BillingPeriodStartDate",
     "bill/BillingPeriodEndDate"}

\* the columns _update_data and _add_common_usage_info assign
S3Columns ==
    {"lineItem/UsageAccountId", "lineItem/LineItemType",
     "lineItem/UsageStartDate", "lineItem/UsageEndDate",
     "lineItem/ProductCode", "lineItem/UsageType", "lineItem/Operation",
     "lineItem/ResourceId", "lineItem/UsageAmount", "lineItem/CurrencyCode",
     "lineItem/UnblendedRate", "lineItem/UnblendedCost",
     "lineItem/BlendedRate", "lineItem/BlendedCost",
     "lineItem/LineItemDescription", "product/ProductName",
     "product/location", "product/locationType", "product/productFamily",
     "product/region", "product/servicecode", "product/sku",
     "product/storageMedia", "product/usagetype",
     "pricing/publicOnDemandCost", "pricing/publicOnDemandRate",
     "pricing/term", "pricing/unit", "resourceTags/user:environment",
     "resourceTags/user:version"}

\* the row has exactly the declared columns, in the declared order, and
\* every column outside `filled` holds the empty string
HasSchema(row, filled) ==
    /\ row.keys = AWS_COLUMNS
    /\ DOMAIN row.val = SeqToSet(AWS_COLUMNS)
    /\ \A c \in SeqToSet(AWS_COLUMNS) \ filled : row.val[c] = ""

\* C9: every AWS row has exactly the key set AWS_COLUMNS in the declared
\* order, as produced by _init_data_row and after the S3 fill step; the fill
\* step adds and removes no key and the columns it does not set keep "".
C9_RowsKeepSchema ==
    /\ S3Columns \subseteq SeqToSet(AWS_COLUMNS)
    /\ \A i \in 1 .. Len(g_data) :
          HasSchema(g_data[i], TemplateColumns \cup S3Columns)
    /\ \A i \in 1 .. Len(g_out) :
          HasSchema(g_out[i], TemplateColumns \cup S3Columns)
    /\ (g_pc = "ready" /\ Len(g_data) < Len(g_self.hours)) =>
          LET hour == g_self.hours[Len(g_data) + 1]
          IN  \A sha1 \in {"sha1-a", "sha1-b"} :
                HasSchema(InitDataRow(g_self, DT(hour.start), DT(hour.end),
                                      sha1).row, TemplateColumns)

\* generate_data returned two filled rows
C9_Witness ==
    /\ g_pc = "done" /\ Len(g_out) = 2
    /\ g_out[2].val["product/servicecode"] = "AmazonS3"
    /\ g_out[2].val["reservation/ReservationARN"] = ""

\* the attributes pin every overridable field: amount, rate, product_sku, tags
PinsEveryField(attributes) ==
    /\ AttrTruthy(attributes)
    /\ \A key \in {"amount", "rate", "product_sku", "tags"} :
         key \in DOMAIN attributes.d /\ GetTruthy(attributes, key)

\* the first value of each random draw of one loop iteration
FirstDraws(self) ==
    [sha1 |-> "sha1-a", account |-> self.usage_accounts[1], ean8 |-> "00000017",
     region |-> REGIONS[1], env |-> ENV_OPTIONS[1], version |-> VERSION_OPTIONS[1]]

\* the row of window k when every draw returns its first value
FirstDrawsRow(self, k) ==
    LET start == DT(self.hours[k].start)
        end == DT(self.hours[k].end)
    IN  S3UpdateData(self, InitDataRow(self, start, end, "sha1-a").row,
                     start, end, FirstDraws(self)).row

\* C11 as stated: two S3 generators constructed with the same start, end,
\* payer account, usage accounts and an attributes mapping that pins amount,
\* rate, product_sku and tags return identical rows; that is, the rows do
\* not depend on the random draws, and each run returns the rows of the run
\* whose draws all return their first value.
C11_PinnedRunsIdentical ==
    (g_pc \in {"ready", "done"} /\ PinsEveryField(g_args.attributes)) =>
        \A k \in 1 .. Len(g_data) : g_data[k] = FirstDrawsRow(g_self, k)

\* the numeric value the attributes supply for key, and its columns
SuppliedColumns(key) ==
    IF key = "amount" THEN {"lineItem/UsageAmount"}
    ELSE IF key = "rate"
    THEN {"lineItem/UnblendedRate", "lineItem/BlendedRate",
          "pricing/publicOnDemandRate"}
    ELSE {"product/sku"}

SuppliedText(attributes, key) ==
    IF key = "product_sku" THEN attributes.d[key] ELSE PyStr(attributes.d[key])

\* C12 as stated: whenever the attributes supply a value for amount, rate or
\* product_sku, whatever the value, every emitted row carries that value in
\* the corresponding columns.
C12_SuppliedValuesVerbatim ==
    (g_pc \in {"ready", "done"} /\ AttrTruthy(g_args.attributes)) =>
        \A k \in 1 .. Len(g_data) :
          \A key \in {"amount", "rate", "product_sku"} \cap DOMAIN g_args.attributes.d :
            \A column \in SuppliedColumns(key) :
              g_data[k].val[column] = SuppliedText(g_args.attributes, key)

\* the amounts and rates a generator of the model can hold
GenAmounts ==
    { rnd.amount : rnd \in InitDraws }
      \cup { a.d.amount : a \in { x \in GenAttributes : ~x.none /\ "amount" \in DOMAIN x.d } }
GenRates ==
    { rnd.rate : rnd \in InitDraws }
      \cup { a.d.rate : a \in { x \in GenAttributes : ~x.none /\ "rate" \in DOMAIN x.d } }

\* the row holds amount in its amount column, rate in its three rate columns
\* and amount * rate in its three cost columns
RowCosts(row, amount, rate) ==
    /\ row.val["lineItem/UsageAmount"] = PyStr(amount)
    /\ \A c \in {"lineItem/UnblendedRate", "lineItem/BlendedRate",
                 "pricing/publicOnDemandRate"} : row.val[c] = PyStr(rate)
    /\ \A c \in {"lineItem/UnblendedCost", "lineItem/BlendedCost",
                 "pricing/publicOnDemandCost"} : row.val[c] = PyStr(Mul(amount, rate))

\* C13: in every row of one S3 generator the three cost columns hold the same
\* value, the product of the amount and the rate written in that row, and
\* amount, rate and cost are the same in all rows of the instance; for the
\* pinned amount 100 and rate 0.05 the cost of every row is 5.
C13_CostIsAmountTimesRate ==
    /\ \E amount \in GenAmounts, rate \in GenRates :
         \A k \in 1 .. Len(g_data) : RowCosts(g_data[k], amount, rate)
    /\ (g_pc \in {"ready", "done"} /\ AttrTruthy(g_args.attributes)
          /\ {"amount", "rate"} \subseteq DOMAIN g_args.attributes.d
          /\ g_args.attributes.d.amount = PyInt(100)
          /\ g_args.attributes.d.rate = PyFloat(5, 2)) =>
         \A k \in 1 .. Len(g_data) :
           g_data[k].val["lineItem/UnblendedCost"] = "5.0"

\* two rows were returned with amount 100, rate 0.05 and cost 5
C13_Witness ==
    /\ g_pc = "done" /\ Len(g_out) = 2
    /\ \A k \in 1 .. 2 :
         /\ g_out[k].val["lineItem/UsageAmount"] = "100"
         /\ g_out[k].val["lineItem/BlendedRate"] = "0.05"
         /\ g_out[k].val["pricing/publicOnDemandCost"] = "5.0"

---------------------------------------------------------------------------
(* Generators whose timeline lies in each calendar month of the modelled   *)
(* years: one window, 22:00 to 23:00, on the first or last day of a month. *)

BillingStarts ==
    UNION { { MakeDT(y, m, d, 22, 0) : d \in {1, DaysInMonth(y, m)} } :
              y \in MLYears, m \in 1 .. 12 }

InitBilling ==
    /\ g_args \in [start_date : { DT(t) : t \in BillingStarts },
                    end_date : { DT(t) : t \in BillingStarts },
                    payer_account : {GenPayer},
                    usage_accounts : {GenUsageAccounts},
                    attributes : { a \in GenAttributes : PinsEveryField(a) }]
    /\ g_args.start_date = g_args.end_date
    /\ g_pc = "new" /\ g_err = "" /\ g_self = <<>>
    /\ g_data = <<>> /\ g_out = <<>>
    /\ TLIdle /\ MLIdle /\ FinIdle /\ ReportIdle

SpecBilling == InitBilling /\ [][NextGen]_vars

\* YYYY-MM-01T00:00:00Z of month m of year y
FirstOfMonthText(y, m) ==
    Digits(y, 4) \o "-" \o Digits(m, 2) \o "-01T00:00:00Z"

\* C15: for every timeline window the row's bill/BillingPeriodStartDate is
\* the first day of the month of the window's start at 00:00:00 and
\* bill/BillingPeriodEndDate the first day of the calendar month that follows
\* it (months of 28 to 31 days; January of the next year after December),
\* both written as YYYY-MM-DDTHH:MM:SSZ.
C15_BillingPeriodIsMonthOfWindow ==
    g_pc \in {"ready", "done"} =>
        \A k \in 1 .. Len(g_data) :
          LET t == g_self.hours[k].start
              y == YearOf(t)
              m == MonthOf(t)
          IN  /\ g_data[k].val["bill/BillingPeriodStartDate"] = FirstOfMonthText(y, m)
              /\ g_data[k].val["bill/BillingPeriodEndDate"]
                   = IF m = 12 THEN FirstOfMonthText(y + 1, 1)
                     ELSE FirstOfMonthText(y, m + 1)

\* the row of a window of 31 December: the period ends in January of the
\* next year
C15_Witness ==
    /\ g_pc = "done" /\ Len(g_out) = 1
    /\ MonthOf(g_self.hours[1].start) = 12
    /\ DayOf(g_self.hours[1].start) = 31
    /\ g_out[1].val["bill/BillingPeriodStartDate"]
         = FirstOfMonthText(YearOf(g_self.hours[1].start), 12)
    /\ g_out[1].val["bill/BillingPeriodEndDate"]
         = FirstOfMonthText(YearOf(g_self.hours[1].start) + 1, 1)

---------------------------------------------------------------------------
(* Specification SpecFinal: _aws_finalize_report applied to row sets of up *)
(* to MaxRows rows of the S3 generator.                                    *)

\* a generator the rows of the row sets come from
FinSelf ==
    S3GeneratorInit(DT(MakeDT(FirstYear, 12, 31, 21, 0)),
                    DT(MakeDT(FirstYear, 12, 31, 21, 0)),
                    GenPayer, GenUsageAccounts, Attributes([tags |-> TagsBoth]),
                    [amount |-> PyFloat(25050, 2), rate |-> PyFloat(3, 2),
                     sku |-> "QWERTYUIOPAS", randint |-> 2]).self

\* the row of the k-th hour of FinSelf, as generate_data emits it
FinRow(k, sha1, account) ==
    LET hour == FinSelf.hours[k]
    IN  S3UpdateData(FinSelf,
                     InitDataRow(FinSelf, DT(hour.start), DT(hour.end), sha1).row,
                     DT(hour.start), DT(hour.end),
                     [account |-> account, ean8 |-> "00000017",
                      region |-> REGIONS[1], env |-> "dev",
                      version |-> "alpha"]).row

\* the rows the row sets are made of: two of them as generated, one that an
\* earlier finalization has given an invoice id
FinRows ==
    { FinRow(1, "sha1-a", GenUsageAccounts[1]),
      FinRow(2, "sha1-b", GenUsageAccounts[2]),
      DictSet(FinRow(2, "sha1-a", GenUsageAccounts[1]),
              "bill/InvoiceId", "555555555") }

FinRowSets == UNION { [1 .. n -> FinRows] : n \in 0 .. MaxRows }

InitFinal ==
    /\ f_in \in FinRowSets
    /\ f_data = f_in
    /\ f_ret = <<>>
    /\ f_pc = "new"
    /\ TLIdle /\ MLIdle /\ GenIdle /\ ReportIdle

Finalize ==
    /\ f_pc = "new"
    /\ \E ids \in InvoiceDraws :
         LET r == AwsFinalizeReport(f_data, ids)
         IN  f_data' = r.arg /\ f_ret' = r.ret
    /\ f_pc' = "done"
    /\ UNCHANGED <<f_in, tl_vars, ml_vars, g_vars, r_vars>>

NextFinal == Finalize

SpecFinal == InitFinal /\ [][NextFinal]_vars

\* C7: _aws_finalize_report returns a row set of the same length and order in
\* which every row's bill/InvoiceId holds one and the same value, and every
\* other column of every row equals that column of the input row.
C7_FinalizeStampsOneInvoiceId ==
    f_pc = "done" =>
        /\ Len(f_ret) = Len(f_in)
        /\ \A i, j \in 1 .. Len(f_ret) :
              f_ret[i].val["bill/InvoiceId"] = f_ret[j].val["bill/InvoiceId"]
        /\ \A i \in 1 .. Len(f_ret) :
              /\ f_ret[i].keys = f_in[i].keys
              /\ \A c \in DOMAIN f_in[i].val \ {"bill/InvoiceId"} :
                    f_ret[i].val[c] = f_in[i].val[c]

\* three rows, one of which had another invoice id, were finalized
C7_Witness ==
    /\ f_pc = "done" /\ Len(f_ret) = 3
    /\ f_in[1].val["bill/InvoiceId"] = ""
    /\ f_in[2].val["bill/InvoiceId"] = "555555555"
    /\ f_in[3] # f_in[1]
    /\ f_ret[2].val["bill/InvoiceId"] = "123456789"

---------------------------------------------------------------------------
(* Specification SpecReport: runs of aws_create_report and of              *)
(* ocp_create_report, a step of the month loop at a time.                  *)

\* the days the date range of a run is drawn from
RunDates == { MakeDT(FirstYear, 12, 31, 0, 0) + k * MinutesPerDay : k \in 0 .. (RunDays - 1) }

RunTags == [tags |-> TagsBoth]

NoStatic == [given |-> FALSE, generators |-> <<>>, accounts |-> [given |-> FALSE]]

StaticAccounts ==
    [given |-> TRUE, payer |-> "9999999999999",
     user |-> <<"9999999999999", "9999999999998">>]

Static(generators, accounts) ==
    [given |-> TRUE, generators |-> generators, accounts |-> accounts]

S3Item(d) == [generator |-> "S3Generator", attributes |-> Attributes(d)]
EC2Item(d) == [generator |-> "EC2Generator", attributes |-> Attributes(d)]
OCPItem(d) == [generator |-> "OCPGenerator", attributes |-> Attributes(d)]

\* the static report data the runs of aws_create_report are started with in
\* every finalize mode and with every destination: one S3 generator with
\* pinned tags, and accounts
AwsStaticPinned == Static(<<S3Item(RunTags)>>, StaticAccounts)

\* the other static report data of a run of aws_create_report: none, an empty
\* generator list, generators with dates of their own, a generator without
\* tags and one without attributes
AwsStatics ==
    { NoStatic,
      Static(<<>>, [given |-> FALSE]),
      Static(<<S3Item(RunTags)>>, [given |-> FALSE]),
      Static(<<S3Item(RunTags @@ [start_date |-> DateStr(MakeDT(FirstYear + 1, 1, 1, 0, 0))]),
               EC2Item([instance_type |-> "m5.large"])>>, StaticAccounts),
      Static(<<EC2Item([instance_type |-> "m5.large"]),
               S3Item(RunTags @@ [start_date |-> DateStr(MakeDT(FirstYear + 1, 1, 1, 0, 0))])>>,
             StaticAccounts),
      Static(<<S3Item(RunTags @@ [end_date |-> DateStr(MakeDT(FirstYear, 12, 29, 0, 0))])>>,
             StaticAccounts),
      Static(<<S3Item(RunTags @@ [end_date |-> DateStr(MakeDT(FirstYear, 12, 30, 0, 0))])>>,
             StaticAccounts),
      Static(<<S3Item([amount |-> PyInt(10)])>>, StaticAccounts),
      Static(<<[generator |-> "S3Generator", attributes |-> NoAttributes]>>,
             StaticAccounts) }

OcpStatics ==
    { NoStatic,
      Static(<<>>, [given |-> FALSE]),
      Static(<<OCPItem([nodes |-> "node-1"])>>, [given |-> FALSE]) }

Destinations == {None, LocalDir, "remote"}

AwsOption(s, e, f, st, dest) ==
    [provider |-> "aws", start_date |-> s, end_date |-> e,
     aws_finalize_report |-> f, static_report_data |-> st,
     destination |-> dest, report_name |-> "cur"]

AwsOptions ==
    { AwsOption(s, e, f, AwsStaticPinned, dest) :
        s \in RunDates, e \in RunDates, f \in {None, "overwrite", "copy"},
        dest \in Destinations }
    \cup
    { AwsOption(s, e, None, st, dest) :
        s \in RunDates, e \in RunDates, st \in AwsStatics,
        dest \in {None, "remote"} }

OcpOptions ==
    { [provider |-> "ocp", start_date |-> s, end_date |-> e,
       aws_finalize_report |-> None, static_report_data |-> st,
       destination |-> dest, report_name |-> "my-ocp-cluster"] :
        s \in RunDates, e \in RunDates, st \in OcpStatics,
        dest \in Destinations }

\* what Faker's five ean draws of _generate_accounts can return
FakeAccounts ==
    { <<"1111111111116", "2222222222222", "3333333333338", "4444444444444",
        "5555555555550">>,
      <<"6666666666666", "7777777777772", "8888888888888", "1234567890128",
        "2222222222222">> }

InitReport ==
    /\ r_opts \in AwsOptions \cup OcpOptions
    /\ r_pc = "start" /\ r_err = ""
    /\ r_gens = <<>> /\ r_months = <<>>
    /\ r_m = 0 /\ r_g = 0 /\ r_k = 0
    /\ r_payer = "" /\ r_usage = <<>>
    /\ r_data = <<>> /\ r_loc = NoLocals
    /\ r_writes = <<>> /\ r_tmp = {} /\ r_ntmp = 0 /\ r_sent = <<>>
    /\ TLIdle /\ MLIdle /\ GenIdle /\ FinIdle

\* the deliveries of the run that did not succeed
Failures == Cardinality({ i \in DOMAIN r_sent : r_sent[i].result # "ok" })

\* an exception leaves the run
Raise(err) ==
    /\ r_err' = err
    /\ r_pc' = "aborted"

\* aws_create_report, lines 214-232
AwsStart ==
    /\ r_pc = "start" /\ r_opts.provider = "aws"
    /\ LET static_report_data == r_opts.static_report_data
           got == IF static_report_data.given
                  THEN GetGenerators(static_report_data.generators)
                  ELSE [err |-> "", generators |-> AwsDefaultGenerators]
       IN  IF got.err # ""
           THEN /\ Raise(got.err)
                /\ UNCHANGED <<r_gens, r_months, r_m, r_payer, r_usage>>
           ELSE \E fake \in FakeAccounts :
                  LET accounts == GenerateAccounts(static_report_data.accounts, fake)
                  IN  /\ r_gens' = got.generators
                      /\ r_months' = CreateMonthList(r_opts.start_date,
                                                     r_opts.end_date)
                      /\ r_payer' = accounts.payer_account
                      /\ r_usage' = accounts.usage_accounts
                      /\ r_m' = 1
                      /\ r_pc' = "month"
                      /\ UNCHANGED r_err
    /\ UNCHANGED <<r_opts, r_g, r_k, r_data, r_loc, r_writes, r_tmp, r_ntmp,
                   r_sent, others_r>>

\* for month in months: data = []
AwsBeginMonth ==
    /\ r_pc = "month" /\ r_opts.provider = "aws"
    /\ r_m <= Len(r_months)
    /\ r_data' = <<>>
    /\ r_g' = 1
    /\ r_pc' = "gen"
    /\ UNCHANGED <<r_opts, r_err, r_gens, r_months, r_m, r_k, r_payer, r_usage,
                   r_loc, r_writes, r_tmp, r_ntmp, r_sent, others_r>>

\* one generator of the month: lines 237-251
AwsGenerate ==
    /\ r_pc = "gen" /\ r_opts.provider = "aws"
    /\ r_g <= Len(r_gens)
    /\ LET generator == r_gens[r_g]
           dates == GenDatesOf(r_months[r_m], generator.attributes)
           generator_end_date == AddOneDay(dates.gen_end_date)
           out == AwsGenerateData(generator.generator, dates.gen_start_date,
                                  generator_end_date, r_payer, r_usage,
                                  generator.attributes)
       IN  /\ r_loc' = [r_loc EXCEPT !.bound = TRUE,
                                     !.gen_start_date = dates.gen_start_date,
                                     !.gen_end_date = dates.gen_end_date]
           /\ IF out.err # ""
              THEN Raise(out.err) /\ UNCHANGED <<r_data, r_g>>
              ELSE /\ r_data' = r_data \o out.rows
                   /\ r_g' = r_g + 1
                   /\ UNCHANGED <<r_pc, r_err>>
    /\ UNCHANGED <<r_opts, r_gens, r_months, r_m, r_k, r_payer, r_usage,
                   r_writes, r_tmp, r_ntmp, r_sent, others_r>>

\* the files of the month: lines 253-269; gen_start_date is unbound when the
\* generator list is empty
AwsWrite ==
    /\ r_pc = "gen" /\ r_opts.provider = "aws"
    /\ r_g > Len(r_gens)
    /\ IF ~r_loc.bound
       THEN /\ Raise("UnboundLocalError")
            /\ UNCHANGED <<r_data, r_loc, r_writes, r_m>>
       ELSE \E invoice_ids \in InvoiceDraws :
              LET aws_finalize_report == r_opts.aws_finalize_report
                  month_output_file_name ==
                      MonthOutputFileName(r_months[r_m], r_loc.gen_start_date,
                                          r_opts.report_name)
                  month_output_file == CsvFile(month_output_file_name)
                  finalized == AwsFinalizeReport(r_data, invoice_ids)
                  data == IF aws_finalize_report = "overwrite" THEN finalized.ret
                          ELSE IF aws_finalize_report = "copy" THEN finalized.arg
                          ELSE r_data
                  copy == IF aws_finalize_report = "copy"
                          THEN << WriteCsv(r_m,
                                    CsvFile(FinalizedFileName(month_output_file_name)),
                                    finalized.ret, AWS_COLUMNS) >>
                          ELSE <<>>
              IN  /\ r_data' = data
                  /\ r_writes' = r_writes \o copy
                        \o << WriteCsv(r_m, month_output_file, data, AWS_COLUMNS) >>
                  /\ r_loc' = [r_loc EXCEPT !.month_output_file = month_output_file]
                  /\ IF r_opts.destination # None
                     THEN r_pc' = "package" /\ UNCHANGED r_m
                     ELSE r_pc' = "month" /\ r_m' = r_m + 1
                  /\ UNCHANGED r_err
    /\ UNCHANGED <<r_opts, r_gens, r_months, r_g, r_k, r_payer, r_usage,
                   r_tmp, r_ntmp, r_sent, others_r>>

\* the manifest and the compressed report: lines 271-284
AwsPackage ==
    /\ r_pc = "package" /\ r_opts.provider = "aws"
    /\ LET report_name == r_opts.report_name
           manifest_values == [account |-> r_payer,
                               aws_report_name |-> report_name,
                               start_date |-> r_loc.gen_start_date,
                               end_date |-> r_loc.gen_end_date]
           made == AwsGenerateManifest("assembly-" \o ToString(r_m),
                                       manifest_values)
           s3_cur_path == made.s3_cur_path
           s3_assembly_path == Dirname(s3_cur_path)
           s3_month_path == Dirname(s3_assembly_path)
           s3_month_manifest_path ==
               Append(s3_month_path, report_name \o "-Manifest.json")
           s3_assembly_manifest_path ==
               Append(s3_assembly_path, report_name \o "-Manifest.json")
           temp_manifest == TempFile(r_ntmp + 1, r_m, "manifest.json",
                                     "manifest_data")
           temp_cur_zip == TempFile(r_ntmp + 2, r_m, "csv.gz",
                                    r_loc.month_output_file)
       IN  /\ r_loc' = [r_loc EXCEPT
                          !.manifest_data = made.manifest_data,
                          !.paths = <<s3_month_manifest_path,
                                      s3_assembly_manifest_path, s3_cur_path>>,
                          !.temp_manifest = temp_manifest,
                          !.temp_cur_zip = temp_cur_zip]
           /\ r_tmp' = r_tmp \cup {temp_manifest, temp_cur_zip}
           /\ r_ntmp' = r_ntmp + 2
    /\ r_k' = 1
    /\ r_pc' = "route"
    /\ UNCHANGED <<r_opts, r_err, r_gens, r_months, r_m, r_g, r_payer, r_usage,
                   r_data, r_writes, r_sent, others_r>>

\* one of the three calls of aws_route_file: lines 285-293
AwsRoute ==
    /\ r_pc = "route" /\ r_opts.provider = "aws"
    /\ \E result \in AwsRouteResults(r_opts.destination, Failures) :
         r_sent' = Append(r_sent,
                     [m |-> r_m, path |-> r_loc.paths[r_k],
                      file |-> IF r_k = 3 THEN r_loc.temp_cur_zip
                               ELSE r_loc.temp_manifest,
                      via |-> AwsRouteVia(r_opts.destination),
                      result |-> result])
    /\ IF r_k < 3 THEN r_k' = r_k + 1 /\ UNCHANGED r_pc
       ELSE r_pc' = "cleanup" /\ UNCHANGED r_k
    /\ UNCHANGED <<r_opts, r_err, r_gens, r_months, r_m, r_g, r_payer, r_usage,
                   r_data, r_loc, r_writes, r_tmp, r_ntmp, others_r>>

\* os.remove(temp_manifest); os.remove(temp_cur_zip)
AwsCleanup ==
    /\ r_pc = "cleanup" /\ r_opts.provider = "aws"
    /\ r_tmp' = r_tmp \ {r_loc.temp_manifest, r_loc.temp_cur_zip}
    /\ r_m' = r_m + 1
    /\ r_pc' = "month"
    /\ UNCHANGED <<r_opts, r_err, r_gens, r_months, r_g, r_k, r_payer, r_usage,
                   r_data, r_loc, r_writes, r_ntmp, r_sent, others_r>>

\* the month loop is over
AwsReturn ==
    /\ r_pc = "month" /\ r_opts.provider = "aws"
    /\ r_m > Len(r_months)
    /\ r_pc' = "done"
    /\ UNCHANGED <<r_opts, r_err, r_gens, r_months, r_m, r_g, r_k, r_payer,
                   r_usage, r_data, r_loc, r_writes, r_tmp, r_ntmp, r_sent,
                   others_r>>

\* ocp_create_report, lines 300-309
OcpStart ==
    /\ r_pc = "start" /\ r_opts.provider = "ocp"
    /\ LET static_report_data == r_opts.static_report_data
           got == IF static_report_data.given
                  THEN GetGenerators(static_report_data.generators)
                  ELSE [err |-> "", generators |-> OcpDefaultGenerators]
       IN  IF got.err # ""
           THEN /\ Raise(got.err)
                /\ UNCHANGED <<r_gens, r_months, r_m>>
           ELSE /\ r_gens' = got.generators
                /\ r_months' = CreateMonthList(r_opts.start_date, r_opts.end_date)
                /\ r_m' = 1
                /\ r_pc' = "month"
                /\ UNCHANGED r_err
    /\ UNCHANGED <<r_opts, r_g, r_k, r_payer, r_usage, r_data, r_loc, r_writes,
                   r_tmp, r_ntmp, r_sent, others_r>>

\* for month in months: data = []
OcpBeginMonth ==
    /\ r_pc = "month" /\ r_opts.provider = "ocp"
    /\ r_m <= Len(r_months)
    /\ r_data' = <<>>
    /\ r_g' = 1
    /\ r_pc' = "gen"
    /\ UNCHANGED <<r_opts, r_err, r_gens, r_months, r_m, r_k, r_payer, r_usage,
                   r_loc, r_writes, r_tmp, r_ntmp, r_sent, others_r>>

\* one generator of the month: lines 312-323
OcpGenerate ==
    /\ r_pc = "gen" /\ r_opts.provider = "ocp"
    /\ r_g <= Len(r_gens)
    /\ LET generator == r_gens[r_g]
           dates == GenDatesOf(r_months[r_m], generator.attributes)
           generator_end_date == AddOneDay(dates.gen_end_date)
           out == OcpGenerateData(generator.generator, dates.gen_start_date,
                                  generator_end_date, generator.attributes)
       IN  /\ r_loc' = [r_loc EXCEPT !.bound = TRUE,
                                     !.gen_start_date = dates.gen_start_date,
                                     !.gen_end_date = dates.gen_end_date]
           /\ IF out.err # ""
              THEN Raise(out.err) /\ UNCHANGED <<r_data, r_g>>
              ELSE /\ r_data' = r_data \o out.rows
                   /\ r_g' = r_g + 1
                   /\ UNCHANGED <<r_pc, r_err>>
    /\ UNCHANGED <<r_opts, r_gens, r_months, r_m, r_k, r_payer, r_usage,
                   r_writes, r_tmp, r_ntmp, r_sent, others_r>>

\* the file of the month: lines 324-328
OcpWrite ==
    /\ r_pc = "gen" /\ r_opts.provider = "ocp"
    /\ r_g > Len(r_gens)
    /\ IF ~r_loc.bound
       THEN /\ Raise("UnboundLocalError")
            /\ UNCHANGED <<r_loc, r_writes, r_m>>
       ELSE LET month_output_file ==
                    CsvFile(MonthOutputFileName(r_months[r_m],
                                                r_loc.gen_start_date,
                                                r_opts.report_name))
            IN  /\ r_writes' = Append(r_writes,
                                      WriteCsv(r_m, month_output_file, r_data,
                                               OCP_COLUMNS))
                /\ r_loc' = [r_loc EXCEPT !.month_output_file = month_output_file]
                /\ IF r_opts.destination # None
                   THEN r_pc' = "package" /\ UNCHANGED r_m
                   ELSE r_pc' = "month" /\ r_m' = r_m + 1
                /\ UNCHANGED r_err
    /\ UNCHANGED <<r_opts, r_gens, r_months, r_g, r_k, r_payer, r_usage, r_data,
                   r_tmp, r_ntmp, r_sent, others_r>>

\* the manifest, the payload and its archive: lines 332-344. The name
\* temp_manifest is bound twice, to two temporary files.
OcpPackage ==
    /\ r_pc = "package" /\ r_opts.provider = "ocp"
    /\ LET ocp_assembly_id == "assembly-" \o ToString(r_m)
           manifest_values == [ocp_cluster_id |-> r_opts.report_name,
                               ocp_assembly_id |-> ocp_assembly_id,
                               report_datetime |-> r_loc.gen_start_date]
           manifest_data == OcpGenerateManifest(manifest_values)
           temp_manifest_339 == TempFile(r_ntmp + 1, r_m, "manifest.json",
                                         "manifest_data")
           temp_usage_file == TempFile(r_ntmp + 2, r_m, "payload/usage_report.csv",
                                       r_loc.month_output_file)
           temp_manifest == TempFile(r_ntmp + 3, r_m, "manifest.json",
                                     "manifest_data")
           temp_manifest_name == TempFile(r_ntmp + 4, r_m, "payload/manifest.json",
                                          "temp_manifest")
           temp_usage_zip == TempFile(r_ntmp + 5, r_m, "tar.gz", "payload")
       IN  /\ r_loc' = [r_loc EXCEPT
                          !.manifest_data = manifest_data,
                          !.temp_manifest = temp_manifest,
                          !.temp_usage_file = temp_usage_file,
                          !.temp_manifest_name = temp_manifest_name,
                          !.temp_usage_zip = temp_usage_zip]
           /\ r_tmp' = r_tmp \cup {temp_manifest_339, temp_usage_file,
                                   temp_manifest, temp_manifest_name,
                                   temp_usage_zip}
           /\ r_ntmp' = r_ntmp + 5
    /\ r_k' = 1
    /\ r_pc' = "route"
    /\ UNCHANGED <<r_opts, r_err, r_gens, r_months, r_m, r_g, r_payer, r_usage,
                   r_data, r_writes, r_sent, others_r>>

\* ocp_route_file(insights_upload, temp_usage_zip): line 345. An exception
\* of requests.post is caught nowhere.
OcpRoute ==
    /\ r_pc = "route" /\ r_opts.provider = "ocp"
    /\ \E result \in OcpRouteResults(r_opts.destination, Failures) :
         /\ r_sent' = Append(r_sent,
                        [m |-> r_m, path |-> <<r_opts.destination>>,
                         file |-> r_loc.temp_usage_zip,
                         via |-> OcpRouteVia(r_opts.destination),
                         result |-> result])
         /\ IF result = "ConnectionError"
            THEN Raise("ConnectionError")
            ELSE r_pc' = "cleanup" /\ UNCHANGED r_err
    /\ UNCHANGED <<r_opts, r_gens, r_months, r_m, r_g, r_k, r_payer, r_usage,
                   r_data, r_loc, r_writes, r_tmp, r_ntmp, others_r>>

\* the four calls of os.remove: lines 346-349
OcpCleanup ==
    /\ r_pc = "cleanup" /\ r_opts.provider = "ocp"
    /\ r_tmp' = r_tmp \ {r_loc.temp_usage_file, r_loc.temp_manifest,
                         r_loc.temp_manifest_name, r_loc.temp_usage_zip}
    /\ r_m' = r_m + 1
    /\ r_pc' = "month"
    /\ UNCHANGED <<r_opts, r_err, r_gens, r_months, r_g, r_k, r_payer, r_usage,
                   r_data, r_loc, r_writes, r_ntmp, r_sent, others_r>>

\* the month loop is over
OcpReturn ==
    /\ r_pc = "month" /\ r_opts.provider = "ocp"
    /\ r_m > Len(r_months)
    /\ r_pc' = "done"
    /\ UNCHANGED <<r_opts, r_err, r_gens, r_months, r_m, r_g, r_k, r_payer,
                   r_usage, r_data, r_loc, r_writes, r_tmp, r_ntmp, r_sent,
                   others_r>>

NextReport ==
    \/ AwsStart \/ AwsBeginMonth \/ AwsGenerate \/ AwsWrite \/ AwsPackage
    \/ AwsRoute \/ AwsCleanup \/ AwsReturn
    \/ OcpStart \/ OcpBeginMonth \/ OcpGenerate \/ OcpWrite \/ OcpPackage
    \/ OcpRoute \/ OcpCleanup \/ OcpReturn

SpecReport == InitReport /\ [][NextReport]_vars

\* the files written for the k-th month, in the order they were written
WritesOf(k) ==
    LET OfMonth(w) == w.m = k
    IN  SelectSeq(r_writes, OfMonth)

\* the calls of the route step made for the k-th month
SentOf(k) == { i \in DOMAIN r_sent : r_sent[i].m = k }

\* C5: in aws_create_report and ocp_create_report with a delivery destination,
\* when the next month's iteration begins and when the run has ended, every
\* temporary file created for the month just processed has been deleted,
\* whether the delivery succeeded or failed.
C5_TempFilesDeletedPerMonth ==
    (r_opts.destination # None /\ r_pc \in {"month", "done", "aborted"})
        => r_tmp = {}

\* C6: a remote delivery that fails is only reported: no exception leaves the
\* route step, the delivery is not made again, and every later month of the
\* run is still written and delivered.
C6_DeliveryFailureOnlyReported ==
    \A i \in DOMAIN r_sent :
        r_sent[i].result # "ok" =>
            /\ r_err # "ConnectionError"
            /\ \A j \in DOMAIN r_sent \ {i} :
                  ~(r_sent[j].m = r_sent[i].m /\ r_sent[j].path = r_sent[i].path)
            /\ r_pc = "done" =>
                  \A k \in (r_sent[i].m + 1) .. Len(r_months) :
                      WritesOf(k) # <<>> /\ SentOf(k) # {}

\* every row holds one and the same invoice id, and it is not the default
SharesInvoiceId(rows) ==
    /\ \A i, j \in DOMAIN rows :
          rows[i].val["bill/InvoiceId"] = rows[j].val["bill/InvoiceId"]
    /\ \A i \in DOMAIN rows : rows[i].val["bill/InvoiceId"] # ""

\* no row has been given an invoice id
NotFinalized(rows) == \A i \in DOMAIN rows : rows[i].val["bill/InvoiceId"] = ""

\* the rows are the same but for the invoice id
SameButInvoiceId(rows, other) ==
    /\ Len(rows) = Len(other)
    /\ \A i \in DOMAIN rows :
          /\ rows[i].keys = other[i].keys
          /\ \A c \in DOMAIN rows[i].val \ {"bill/InvoiceId"} :
                rows[i].val[c] = other[i].val[c]

\* the names the canonical file of the k-th month can have, and the names of
\* its finalized copy
CanonicalFiles(k) ==
    { CsvFile(r_months[k].name \o "-" \o ToString(y) \o "-" \o r_opts.report_name) :
        y \in FirstYear .. (FirstYear + MaxYears) }

FinalizedFiles(k) ==
    { CsvFile(FinalizedFileName(r_months[k].name \o "-" \o ToString(y) \o "-"
                                    \o r_opts.report_name)) :
        y \in FirstYear .. (FirstYear + MaxYears) }

\* the compressed reports handed to the route step for the k-th month are
\* made of this file
OnlyDelivers(k, file) ==
    \A i \in SentOf(k) :
        r_sent[i].file.kind = "csv.gz" => r_sent[i].file.of = file

\* C8: in aws_create_report, for every month that has been written: with
\* finalize mode 'overwrite' the canonical file holds the finalized rows, all
\* with one invoice id; with mode 'copy' the canonical file holds the rows as
\* generated, their invoice id still empty, a second file with the suffix
\* '-finalized' holds the finalized rows, and only the canonical file is
\* compressed and delivered; with no mode only the canonical file is written
\* and its rows are not finalized.
C8_FinalizeModesPerMonth ==
    r_opts.provider = "aws" =>
        \A k \in 1 .. Len(r_months) :
            LET w == WritesOf(k)
                mode == r_opts.aws_finalize_report
            IN  w # <<>> =>
                  CASE mode = "overwrite" ->
                         /\ Len(w) = 1
                         /\ w[1].file \in CanonicalFiles(k)
                         /\ SharesInvoiceId(w[1].rows)
                         /\ OnlyDelivers(k, w[1].file)
                    [] mode = "copy" ->
                         /\ Len(w) = 2
                         /\ w[1].file \in FinalizedFiles(k)
                         /\ w[2].file \in CanonicalFiles(k)
                         /\ SharesInvoiceId(w[1].rows)
                         /\ NotFinalized(w[2].rows)
                         /\ SameButInvoiceId(w[1].rows, w[2].rows)
                         /\ OnlyDelivers(k, w[2].file)
                    [] OTHER ->
                         /\ Len(w) = 1
                         /\ w[1].file \in CanonicalFiles(k)
                         /\ NotFinalized(w[1].rows)
                         /\ OnlyDelivers(k, w[1].file)

\* a run in mode 'copy' has written and delivered two months of rows
C8_Witness ==
    /\ r_opts.provider = "aws" /\ r_pc = "done"
    /\ r_opts.aws_finalize_report = "copy"
    /\ Len(r_months) = 2 /\ Len(r_writes) = 4
    /\ \A i \in DOMAIN r_writes : Len(r_writes[i].rows) > 0
    /\ Len(r_sent) = 6
    /\ r_writes[1].rows[1].val["bill/InvoiceId"]
         # r_writes[3].rows[1].val["bill/InvoiceId"]

\* C10: in a run of aws_create_report every row of every month written has
\* bill/PayerAccountId equal to the payer account of the run and
\* lineItem/UsageAccountId equal to a member of its usage accounts, which are
\* set once, before the month loop.
C10_AccountsFixedForRun ==
    r_opts.provider = "aws" =>
        \A i \in DOMAIN r_writes :
            \A j \in DOMAIN r_writes[i].rows :
                LET row == r_writes[i].rows[j]
                IN  /\ row.val["bill/PayerAccountId"] = r_payer
                    /\ row.val["lineItem/UsageAccountId"] \in SeqToSet(r_usage)

\* a run with accounts drawn by Faker has written two months, and the rows
\* of each month use more than one usage account
C10_Witness ==
    /\ r_opts.provider = "aws" /\ r_pc = "done"
    /\ ~r_opts.static_report_data.accounts.given
    /\ Len(r_writes) = 2
    /\ r_writes[1].m = 1 /\ r_writes[2].m = 2
    /\ \A i \in DOMAIN r_writes :
          \E j, k \in DOMAIN r_writes[i].rows :
              r_writes[i].rows[j].val["lineItem/UsageAccountId"]
                  # r_writes[i].rows[k].val["lineItem/UsageAccountId"]



\* the calls of the route step made for the k-th month, in the order made
SentSeq(k) ==
    LET OfMonth(x) == x.m = k
    IN  SelectSeq(r_sent, OfMonth)

\* the temporary files of the k-th month that exist
TempFilesOf(k) == { f \in r_tmp : f.m = k }

\* the temporary files of the k-th month have been created: a month creates
\* two, and the months are processed one after the other
AwsPackaged(k) == r_ntmp >= 2 * k

\* C17: for every month processed by aws_create_report with a destination,
\* the month's canonical file is written first, then the manifest temp file
\* and the compressed report are created, then exactly three deliveries are
\* made: the manifest to the month path, the same manifest file to the
\* assembly path, the compressed report (of the canonical file) to the
\* report path, then the temp files are removed; a delivery is a local copy
\* when the destination is an existing directory and an upload otherwise.
\* With no destination no temp file is created and no delivery is made.
C17_AwsMonthStepOrder ==
    r_opts.provider = "aws" =>
      IF r_opts.destination = None
      THEN r_tmp = {} /\ r_ntmp = 0 /\ r_sent = <<>>
      ELSE \A k \in 1 .. Len(r_months) :
             LET w == WritesOf(k)
                 sent == SentSeq(k)
                 tmp == TempFilesOf(k)
             IN  /\ AwsPackaged(k) => w # <<>>
                 /\ ~AwsPackaged(k) => sent = <<>> /\ tmp = {}
                 /\ Len(sent) <= 3
                 /\ \A i \in DOMAIN sent :
                      /\ sent[i].via = IF IsDir(r_opts.destination)
                                       THEN "copy_to_local_dir" ELSE "upload_to_s3"
                      /\ sent[i].file.m = k
                      /\ sent[i].file.kind = IF i = 3 THEN "csv.gz" ELSE "manifest.json"
                 /\ Len(sent) >= 2 =>
                      /\ sent[2].file = sent[1].file
                      /\ Dirname(sent[1].path) = Dirname(Dirname(sent[2].path))
                      /\ sent[1].path[Len(sent[1].path)] = sent[2].path[Len(sent[2].path)]
                 /\ Len(sent) = 3 =>
                      /\ Dirname(sent[2].path) = Dirname(sent[3].path)
                      /\ sent[3].path # sent[2].path
                      /\ sent[3].file.of = w[Len(w)].file
                 /\ (AwsPackaged(k) /\ Len(sent) < 3) =>
                      { f.kind : f \in tmp } = {"manifest.json", "csv.gz"}
                 /\ \A i \in DOMAIN sent : Len(sent) < 3 => sent[i].file \in tmp
                 /\ (AwsPackaged(k) /\ tmp = {}) => Len(sent) = 3
                 /\ (r_m > k \/ r_pc = "done") =>
                      /\ w # <<>> /\ AwsPackaged(k)
                      /\ Len(sent) = 3 /\ tmp = {}

\* between the second and the third delivery of the second month of a run
\* that delivers to a local directory: both temp files of the month exist
C17_Witness ==
    /\ r_opts.provider = "aws" /\ r_opts.destination = LocalDir
    /\ r_pc = "route" /\ r_m = 2 /\ r_k = 3
    /\ Len(SentSeq(1)) = 3 /\ Len(SentSeq(2)) = 2
    /\ TempFilesOf(1) = {} /\ Cardinality(TempFilesOf(2)) = 2
    /\ SentSeq(2)[2].via = "copy_to_local_dir"


\* the timeline of generator g of the run in the k-th month
RunHours(k, g) ==
    LET dates == GenDatesOf(r_months[k], r_gens[g].attributes)
    IN  SetHours(DT(dates.gen_start_date),
                 DT(AddOneDay(dates.gen_end_date))).hours

\* the timelines of the generators of the run in the k-th month, in the
\* order of the generator list
RunTimelines(k) == [g \in DOMAIN r_gens |-> RunHours(k, g)]

\* the number of windows of the first g timelines
RECURSIVE WindowsBefore(_, _)
WindowsBefore(timelines, g) ==
    IF g = 0 THEN 0
    ELSE WindowsBefore(timelines, g - 1) + Len(timelines[g])

\* the product code of the rows of a generator
RunProductCode(generator_cls) ==
    IF generator_cls = "S3Generator" THEN "AmazonS3"
    ELSE ProductCodeOf(generator_cls)

\* the rows are those of the timelines, generator after generator, each
\* with one row for every window in the order of the timeline
RowsFollowTimelines(rows, timelines) ==
    /\ Len(rows) = WindowsBefore(timelines, Len(timelines))
    /\ \A g \in DOMAIN timelines : \A i \in DOMAIN timelines[g] :
         LET row == rows[WindowsBefore(timelines, g - 1) + i]
             hour == timelines[g][i]
         IN  /\ row.val["identity/TimeInterval"]
                  = time_interval(DT(hour.start), DT(hour.end))
             /\ row.val["lineItem/ProductCode"]
                  = RunProductCode(r_gens[g].generator)

\* C18: the months of a run are processed in chronological order, and the
\* canonical file of every month written has the provider's column list as
\* its header, in the declared order; in aws_create_report its rows are
\* exactly the rows the generators made for that month: the generators in
\* the order of the list and, for each, one row for every window of its
\* timeline, in order, with the window's start and end as
\* identity/TimeInterval. The rows are reset for every month, so a file
\* holds no row made for an earlier month.
C18_FileIsHeaderAndRowsOfMonth ==
    /\ \A i, j \in DOMAIN r_writes : i < j => r_writes[i].m <= r_writes[j].m
    /\ \A i, j \in DOMAIN r_months : i < j => r_months[i].start < r_months[j].start
    /\ \A k \in 1 .. Len(r_months) :
         LET w == WritesOf(k)
         IN  w # <<>> =>
               /\ w[Len(w)].header
                    = IF r_opts.provider = "aws" THEN AWS_COLUMNS ELSE OCP_COLUMNS
               /\ r_opts.provider = "aws" =>
                    \E timelines \in {RunTimelines(k)} :
                      RowsFollowTimelines(w[Len(w)].rows, timelines)

\* a run of two generators has written two months; the file of the first
\* holds the rows of the first generator before those of the second
C18_Witness ==
    /\ r_opts.provider = "aws" /\ r_pc = "done"
    /\ Len(r_gens) = 2 /\ Len(r_months) = 2 /\ Len(r_writes) = 2
    /\ Len(RunHours(1, 1)) > 0 /\ Len(RunHours(1, 2)) > Len(RunHours(1, 1))
    /\ r_writes[1].rows[1].val["lineItem/ProductCode"] = "AmazonS3"
    /\ r_writes[1].rows[Len(r_writes[1].rows)].val["lineItem/ProductCode"] = "AmazonEC2"
    /\ r_writes[2].rows[Len(r_writes[2].rows)].val["identity/TimeInterval"]
         # r_writes[1].rows[Len(r_writes[1].rows)].val["identity/TimeInterval"]


\* the hourly windows from the start of the k-th month segment to the end
\* of its last day (segment end plus one day), as the pairs <<start, end>>
SegmentWindows(k) ==
    LET first == r_months[k].start
        last == AddOneDay(r_months[k].end)
    IN  { <<first + one_hour * i, first + one_hour * (i + 1)>> :
            i \in 0 .. (((last - first) \div one_hour) - 1) }

\* the window of a row of a file: of its identity/TimeInterval in an AWS
\* report, of its interval_start and interval_end in an OCP report
RowInWindows(row, windows) ==
    IF r_opts.provider = "aws"
    THEN row.val["identity/TimeInterval"]
           \in { time_interval(DT(win[1]), DT(win[2])) : win \in windows }
    ELSE <<row.val["interval_start"], row.val["interval_end"]>> \in windows

\* the windows of the rows of a file
WindowsOfFile(w) ==
    IF r_opts.provider = "aws"
    THEN { w.rows[i].val["identity/TimeInterval"] : i \in DOMAIN w.rows }
    ELSE { w.rows[i].val["interval_start"] : i \in DOMAIN w.rows }

\* C19 as stated: in aws_create_report and ocp_create_report every row
\* written to a month's file has an hourly window that starts at or after
\* the month segment's start and ends no later than the segment's end plus
\* one day, and no hourly window is in the files of two months of a run.
C19_RowsWithinMonthSegment ==
    /\ \A i \in DOMAIN r_writes :
         \E windows \in {SegmentWindows(r_writes[i].m)} :
           \A j \in DOMAIN r_writes[i].rows :
             RowInWindows(r_writes[i].rows[j], windows)
    /\ \A i, j \in DOMAIN r_writes :
         r_writes[i].m # r_writes[j].m =>
           WindowsOfFile(r_writes[i]) \cap WindowsOfFile(r_writes[j]) = {}


\* C20 as stated: for every month processed by aws_create_report the year
\* in the name of the month's file and the start_date and end_date placed in
\* the month's manifest are those of the month's segment, whatever the
\* generator list holds (date overrides, any order), and they are defined
\* when the generator list is empty.
C20_NameAndManifestFromSegment ==
    r_opts.provider = "aws" =>
        /\ r_err # "UnboundLocalError"
        /\ \A k \in 1 .. Len(r_months) :
             LET w == WritesOf(k)
             IN  w # <<>> =>
                   w[Len(w)].file
                     = CsvFile(MonthOutputFileName(r_months[k], r_months[k].start,
                                                   r_opts.report_name))
        /\ r_pc \in {"route", "cleanup"} =>
             /\ r_loc.gen_start_date = r_months[r_m].start
             /\ r_loc.gen_end_date = r_months[r_m].end

---------------------------------------------------------------------------
(* Specification SpecValidation: the construction of one generator and the *)
(* runs of the orchestrators, side by side.                                *)

InitValidation == InitGen \/ InitReport

NextValidation == NextGen \/ NextReport

SpecValidation == InitValidation /\ [][NextValidation]_vars

\* start or end is absent or no date-time, or end is earlier than start
GenRangeInvalid(start_date, end_date) ==
    \/ ~Truthy(start_date) \/ ~Truthy(end_date)
    \/ ~IsDatetime(start_date) \/ ~IsDatetime(end_date)
    \/ end_date.t < start_date.t

\* generator g of the run is constructed in month m with an end earlier than
\* its start
RunRangeInvalid(m, g) ==
    LET dates == GenDatesOf(r_months[m], r_gens[g].attributes)
    IN  AddOneDay(dates.gen_end_date) < dates.gen_start_date

\* C16: constructing a generator fails with a ValueError, with no timeline
\* and no rows, when start or end is absent or no date-time or when end is
\* earlier than start, and succeeds for every pair of date-times with
\* start <= end; in a run the error leaves the orchestrator: the run is
\* aborted, nothing is written or delivered for the month of the failing
\* generator or for a later month, and a run that ends normally had no such
\* generator.
C16_InvalidRangeAborts ==
    /\ g_pc \notin {"idle", "new"} =>
         IF GenRangeInvalid(g_args.start_date, g_args.end_date)
         THEN /\ g_pc = "failed" /\ g_err = "ValueError"
              /\ g_self = <<>> /\ g_data = <<>> /\ g_out = <<>>
         ELSE g_pc # "failed"
    /\ r_pc \notin {"idle", "start"} =>
         /\ \A i \in DOMAIN r_writes : \A g \in DOMAIN r_gens :
              ~RunRangeInvalid(r_writes[i].m, g)
         /\ r_pc = "done" =>
              \A m \in DOMAIN r_months : \A g \in DOMAIN r_gens :
                ~RunRangeInvalid(m, g)
         /\ (r_pc = "aborted" /\ r_err = "ValueError") =>
              /\ RunRangeInvalid(r_m, r_g)
              /\ \A i \in DOMAIN r_writes : r_writes[i].m < r_m
              /\ \A i \in DOMAIN r_sent : r_sent[i].m < r_m
         /\ (r_pc \in {"gen", "package", "route", "cleanup"}) =>
              \A g \in 1 .. (r_g - 1) : ~RunRangeInvalid(r_m, g)

\* a run whose first month was written and delivered and whose second month
\* was aborted by the ValueError of a generator's construction
C16_Witness ==
    /\ r_pc = "aborted" /\ r_err = "ValueError"
    /\ r_m = 2 /\ Len(r_writes) = 1 /\ Len(r_sent) = 3
    /\ r_data = <<>>

=============================================================================
